---------------------------- MODULE Spec2Model ----------------------------
(***************************************************************************)
(* Verified Action Pipeline of the RoboID protocol: the action store       *)
(* (storage/logger.py, ActionLogger over SQLite), the action id            *)
(* (crypto/keys.py, generate_action_id), the Merkle tree (crypto/keys.py,   *)
(* MerkleTree) and the operations of the agent that drive an action's      *)
(* proof status (agent.py).                                                *)
(*                                                                         *)
(* Strings that are formatted, concatenated or parsed by the code are      *)
(* sequences of one-character strings; opaque values are TLA+ strings.     *)
(***************************************************************************)
EXTENDS Integers, Sequences, FiniteSets, TLC

VARIABLES
    actions,      \* table `actions` as committed: sequence of rows in rowid order
    action_tags,  \* table `action_tags` as committed: set of <<action_id, tag>>
    wtx,          \* the open SQLite write transaction (uncommitted copy), or NoTx
    lock,         \* owner of ActionLogger._lock (threading.RLock), or None
    th,           \* per thread: the call it is in, its position, what it emitted and returned
    idCallA,      \* a generate_action_id call: inputs and result
    idCallB,      \* another generate_action_id call: inputs and result
    mtA,          \* a MerkleTree: its leaves and, once built, its layers
    mtB,          \* another MerkleTree
    mkProof,      \* a get_proof call on mtA: index and outcome
    mkVerify,     \* a verify_proof call: leaf, proof, root and result
    proving_key_loaded,  \* ZKProver._proving_key_loaded
    stats,        \* ZKProver._stats
    proof_cache,  \* ZKProver._proof_cache: set of <<action id, proof>>, one per id
    pv,           \* per engine thread: the ZKProver call it is in
    rep,          \* ReputationManager: _score, _history, _streak, _last_decay_check, totals
    rep_lock,     \* owner of ReputationManager._lock (threading.Lock), or None
    clock,        \* time.time() in whole seconds
    rt,           \* per thread: the ReputationManager call it is in
    decayed,      \* history: the seconds of decay applied to the score since the checkpoints began
    engine_lock,  \* owner of ZKProver._lock (threading.Lock), or None
    pool,         \* ZKProver._executor: the tasks submitted and the state of shutdown
    schema,       \* the database file: rows of schema_version, columns and rows of actions
    boot,         \* per store instance: where its constructor is in _init_database
    counting      \* per engine thread: where it is in updating a statistics counter

storeVars == <<actions, action_tags, wtx, lock, th>>
idVars == <<idCallA, idCallB>>
merkleVars == <<mtA, mtB, mkProof, mkVerify>>
\* everything that is not the action store
engineVars == <<proving_key_loaded, stats, proof_cache, pv>>
ledgerVars == <<rep, rep_lock, clock, rt, decayed>>
\* the components that follow the proof engine
bootVars == <<schema, boot>>
\* the variables of the components added last
tailVars == <<counting>>
lateVars == <<engine_lock, pool, bootVars, tailVars>>
restVars == <<ledgerVars, lateVars>>
notLedger == <<storeVars, idVars, merkleVars, engineVars, lateVars>>
outsideStore == <<idVars, merkleVars, engineVars, restVars>>
vars == <<storeVars, outsideStore>>

None == "None"

(***************************************************************************)
(* Text: str(int), bytes.hex() and the f-string of generate_action_id.     *)
(***************************************************************************)
DigitChar(d) ==
    CASE d = 0 -> "0" [] d = 1 -> "1" [] d = 2 -> "2" [] d = 3 -> "3"
      [] d = 4 -> "4" [] d = 5 -> "5" [] d = 6 -> "6" [] d = 7 -> "7"
      [] d = 8 -> "8" [] d = 9 -> "9" [] d = 10 -> "a" [] d = 11 -> "b"
      [] d = 12 -> "c" [] d = 13 -> "d" [] d = 14 -> "e" [] d = 15 -> "f"

RECURSIVE DecNat(_)
DecNat(n) == IF n < 10 THEN <<DigitChar(n)>>
             ELSE DecNat(n \div 10) \o <<DigitChar(n % 10)>>

\* str(timestamp) for an int
IntStr(n) == IF n < 0 THEN <<"-">> \o DecNat(0 - n) ELSE DecNat(n)

RECURSIVE BytesHex(_)
\* bytes.hex(): two lower-case hex digits per byte
BytesHex(bs) ==
    IF bs = <<>> THEN <<>>
    ELSE <<DigitChar(Head(bs) \div 16), DigitChar(Head(bs) % 16)>> \o BytesHex(Tail(bs))

\* hashlib.sha256(content).digest()[:12].hex(): the hash is collision-free, so
\* the digest prefix stands for the content it was computed from
Sha256Prefix(content) == <<"sha256", content>>

\* the content without the entropy
ActionIdContentNoEntropy(did, action_type, timestamp, entropy) ==
    did \o <<":">> \o action_type \o <<":">> \o IntStr(timestamp)

\* contents of the f-string hashed by generate_action_id
ActionIdContent(did, action_type, timestamp, entropy) ==
    did \o <<":">> \o action_type \o <<":">> \o IntStr(timestamp) \o <<":">> \o BytesHex(entropy)

\* generate_action_id with the entropy already drawn
GenerateActionId(did, action_type, timestamp, entropy) ==
    <<"act_", Sha256Prefix(ActionIdContent(did, action_type, timestamp, entropy))>>

\* secrets.token_bytes(8): the values the model lets the generator draw
TokenBytes == { <<0, 0, 0, 0, 0, 0, 0, 1>>, <<171, 0, 0, 0, 0, 0, 0, 1>> }

\* the entropy generate_action_id uses: the argument (<<bytes>>), or a fresh
\* draw when it is None (<<>>)
EntropyUsed(entropyArg) == IF entropyArg = <<>> THEN TokenBytes ELSE {entropyArg[1]}

(***************************************************************************)
(* Values of the ActionType enumeration used by the model, and DIDs.       *)
(***************************************************************************)
NAV_START == <<"N", "A", "V", "_", "S", "T", "A", "R", "T">>
NAV_COMPLETE == <<"N", "A", "V", "_", "C", "O", "M", "P", "L", "E", "T", "E">>
ActionTypes == {NAV_START, NAV_COMPLETE}

\* CryptoKeyPair.did: "did:roboid:" followed by the base58 public key
DidOf(pk) == <<"d", "i", "d", ":", "r", "o", "b", "o", "i", "d", ":">> \o pk

(***************************************************************************)
(* Bounds of the model.                                                    *)
(***************************************************************************)
\* rows the actions table may hold
MaxRows == 2

Threads == {"t1", "t2"}

\* int(time.time()) as the model lets the clock read
NowValues == {1001}

(***************************************************************************)
(* ProofStatus (core/config.py) and the status machine of the              *)
(* specification.                                                          *)
(***************************************************************************)
PENDING == "pending"
GENERATING == "generating"
GENERATED == "generated"
SUBMITTING == "submitting"
SUBMITTED == "submitted"
VERIFIED == "verified"
FAILED == "failed"
REJECTED == "rejected"
EXPIRED == "expired"

ProofStatus == {PENDING, GENERATING, GENERATED, SUBMITTING, SUBMITTED,
                VERIFIED, FAILED, REJECTED, EXPIRED}

(***************************************************************************)
(* The store's identity and the records it builds.                         *)
(***************************************************************************)
\* identity.did of the store's RobotIdentity
StoreDid == DidOf(<<"K", "1">>)

\* Python values that go through json: a str made of one character repeated
\* `count' times, an int, and a dict, whose items are key/value pairs in
\* insertion order; a key is an int or a str and `text' is what json writes
\* for it
PyStr(char, count) == [type |-> "str", char |-> char, count |-> count, items |-> <<>>]
PyInt(n) == [type |-> "int", char |-> "", count |-> n, items |-> <<>>]
PyDict(items) == [type |-> "dict", char |-> "", count |-> 0, items |-> items]
IntKey(n) == [int |-> TRUE, text |-> IntStr(n)]
StrKey(text) == [int |-> FALSE, text |-> text]
Item(key, value) == [key |-> key, value |-> value]
EmptyDict == PyDict(<<>>)

\* what a JSON document holds of a value: the keys of a dict are written as
\* strings, whatever they were
RECURSIVE JsonDocument(_)
JsonDocument(v) ==
    IF v.type = "dict"
    THEN PyDict([i \in 1..Len(v.items) |->
                    Item(StrKey(v.items[i].key.text), JsonDocument(v.items[i].value))])
    ELSE v

\* json.dumps of a payload or metadata dict, as stored in a TEXT column
JsonDumps(x) == <<"json", JsonDocument(x)>>

\* json.loads of a stored TEXT column
JsonLoads(text) == text[2]

\* len(json.dumps(v)) with the default separators ', ' and ': '
RECURSIVE JsonLen(_)
RECURSIVE JsonItemsLen(_)
JsonItemsLen(items) ==
    IF items = <<>> THEN 0
    ELSE Len(Head(items).key.text) + 4 + JsonLen(Head(items).value)
         + (IF Tail(items) = <<>> THEN 0 ELSE 2 + JsonItemsLen(Tail(items)))
JsonLen(v) ==
    IF v.type = "str" THEN v.count + 2
    ELSE IF v.type = "int" THEN Len(IntStr(v.count))
    ELSE 2 + JsonItemsLen(v.items)

\* the length of a stored JSON text
TextLen(text) == JsonLen(text[2])

\* CONFIG.MAX_PAYLOAD_SIZE: 1024 * 1024
MAX_PAYLOAD_SIZE == 1048576

\* payloads: {"a": "x"} and {1: "x"}
P1 == PyDict(<<Item(StrKey(<<"a">>), PyStr("x", 1))>>)
PIntKey == PyDict(<<Item(IntKey(1), PyStr("x", 1))>>)
\* {"b": "x" * MAX_PAYLOAD_SIZE}, whose JSON text is longer than the maximum
PBig == PyDict(<<Item(StrKey(<<"b">>), PyStr("x", MAX_PAYLOAD_SIZE))>>)

\* {2: "x", 10: "x"}
PTwoIntKeys == PyDict(<<Item(IntKey(2), PyStr("x", 1)), Item(IntKey(10), PyStr("x", 1))>>)

\* the characters of the model's keys in the order of their code points
KeyChars == <<"0", "1", "2", "3", "4", "5", "6", "7", "8", "9", "a", "b", "g", "l", "n", "o",
              "p", "s", "t">>
CodePointRank(c) == CHOOSE k \in 1..Len(KeyChars) : KeyChars[k] = c

\* a < b for two str
RECURSIVE StrBefore(_, _)
StrBefore(a, b) ==
    IF b = <<>> THEN FALSE
    ELSE IF a = <<>> THEN TRUE
    ELSE IF Head(a) = Head(b) THEN StrBefore(Tail(a), Tail(b))
    ELSE CodePointRank(Head(a)) < CodePointRank(Head(b))

\* the int a key was written from
RECURSIVE NatOf(_)
NatOf(text) ==
    IF text = <<>> THEN 0
    ELSE 10 * NatOf(SubSeq(text, 1, Len(text) - 1))
         + (CHOOSE d \in 0..9 : DigitChar(d) = text[Len(text)])

\* a < b for two keys of one kind: ints by value, strs by code point
KeyBefore(a, b) == IF a.int THEN NatOf(a.text) < NatOf(b.text) ELSE StrBefore(a.text, b.text)

\* sorted(items) of a dict whose keys are of one kind
SortedItems(items) ==
    LET rank(i) == 1 + Cardinality({j \in 1..Len(items) : KeyBefore(items[j].key, items[i].key)})
    IN [k \in 1..Len(items) |-> items[CHOOSE i \in 1..Len(items) : rank(i) = k]]

\* what json.dumps(v, sort_keys=True, separators=(',', ':')) writes of a
\* value: the items of every dict sorted by their keys, the keys then
\* written as strings
RECURSIVE CanonicalDocument(_)
CanonicalDocument(v) ==
    IF v.type = "dict"
    THEN LET sorted == SortedItems(v.items)
         IN PyDict([k \in 1..Len(sorted) |->
                       Item(StrKey(sorted[k].key.text), CanonicalDocument(sorted[k].value))])
    ELSE v

\* canonical of sign_action: the four keys of sign_data sort as id, payload,
\* timestamp, type
Canonical(sign_data) ==
    <<"json", [sign_data EXCEPT !.payload = CanonicalDocument(sign_data.payload)]>>

\* RobotIdentity.sign_action: signature over the canonical JSON of sign_data
SignAction(sign_data) == <<"sig", StoreDid, Canonical(sign_data)>>

\* RobotIdentity.verify_signature(message, signature): the signature is the
\* one this identity's key gives the message
VerifySignature(message, signature) == signature = <<"sig", StoreDid, message>>

\* the sign_data dictionary of log_action and log_actions_batch
SignData(id, action_type, payload, ts) ==
    [id |-> id, type |-> action_type, payload |-> payload, timestamp |-> ts]

\* the ActionRecord built by log_action and log_actions_batch; tx_hash,
\* proof_id and batch_id take their default None, created_at is now
NewRecord(action_type, payload, ts, entropy, metadata, now) ==
    LET id == GenerateActionId(StoreDid, action_type, ts, entropy) IN
    [id |-> id,
     robot_did |-> StoreDid,
     action_type |-> action_type,
     payload |-> payload,
     timestamp |-> ts,
     signature |-> SignAction(SignData(id, action_type, payload, ts)),
     proof_status |-> PENDING,
     tx_hash |-> None,
     proof_id |-> None,
     batch_id |-> None,
     metadata |-> metadata,
     created_at |-> now]

\* the row INSERTed for a record: payload and metadata as JSON text; tx_hash,
\* proof_id and batch_id are NULL, created_at is the column default (now)
RowOf(record) ==
    [record EXCEPT !.payload = JsonDumps(record.payload),
                   !.metadata = JsonDumps(record.metadata)]

\* an id no append has produced
GhostId == GenerateActionId(StoreDid, NAV_START, 999, <<0>>)

(***************************************************************************)
(* SQL over the two tables.                                                *)
(***************************************************************************)
RowIds(tbl) == {tbl[i].id : i \in 1..Len(tbl)}

\* a table whose id column is no key
PrimaryKeyAbsent(tbl, id) == TRUE

\* INSERT INTO actions: id is the PRIMARY KEY
PrimaryKeyFree(tbl, id) == id \notin RowIds(tbl)

\* the UPDATE without its WHERE clause
SqlUpdateStatusEveryRow(tbl, id, status, tx_hash, proof_id) ==
    [i \in 1..Len(tbl) |->
        [tbl[i] EXCEPT !.proof_status = status, !.tx_hash = tx_hash, !.proof_id = proof_id]]

\* UPDATE actions SET proof_status = ?, tx_hash = ?, proof_id = ? WHERE id = ?
SqlUpdateStatus(tbl, id, status, tx_hash, proof_id) ==
    [i \in 1..Len(tbl) |->
        IF tbl[i].id = id
        THEN [tbl[i] EXCEPT !.proof_status = status, !.tx_hash = tx_hash,
                            !.proof_id = proof_id]
        ELSE tbl[i]]

\* UPDATE actions SET batch_id = ? WHERE id IN (...)
SqlUpdateBatch(tbl, ids, batch_id) ==
    [i \in 1..Len(tbl) |->
        IF tbl[i].id \in ids THEN [tbl[i] EXCEPT !.batch_id = batch_id] ELSE tbl[i]]

\* the sequences that list every element of a set of row indexes once
Orderings(S) ==
    {o \in [1..Cardinality(S) -> S] : \A i, j \in 1..Cardinality(S) : i # j => o[i] # o[j]}

\* WHERE column = value: the positions of the matching rows
SqlWhere(tbl, column, value) == {i \in DOMAIN tbl : tbl[i][column] = value}

\* SELECT ... ORDER BY timestamp ASC|DESC LIMIT ? over the matching rows `hits':
\* every row order the ORDER BY allows (rows of equal timestamp come in any
\* order), cut to the limit; a negative LIMIT is no limit
SqlSelect(tbl, hits, ascending, limit) ==
    LET sorted == {o \in Orderings(hits) :
                     \A i, j \in 1..Cardinality(hits) :
                        i < j => IF ascending
                                 THEN tbl[o[i]].timestamp <= tbl[o[j]].timestamp
                                 ELSE tbl[o[i]].timestamp >= tbl[o[j]].timestamp}
        n == IF limit < 0 \/ limit > Cardinality(hits) THEN Cardinality(hits) ELSE limit
    IN {[k \in 1..n |-> tbl[o[k]]] : o \in sorted}

AttributeError == "AttributeError"
IntegrityError == "IntegrityError"
OperationalError == "OperationalError"
ValueError == "ValueError"
KeyError == "KeyError"

\* the outcome of a call: the exception it raised (or None) and its value
Returned(value) == [exc |-> None, value |-> value]
Raised(exc) == [exc |-> exc, value |-> None]

\* row.get(column): sqlite3.Row has keys() and indexing but no get()
RowGet(row, column) == Raised(AttributeError)

\* _row_to_record: the arguments of ActionRecord(...) are evaluated in order;
\* proof_id and batch_id are read with row.get(...), which raises
RowToRecord(row) ==
    IF RowGet(row, "proof_id").exc # None THEN RowGet(row, "proof_id")
    ELSE IF RowGet(row, "batch_id").exc # None THEN RowGet(row, "batch_id")
    ELSE Returned([row EXCEPT !.payload = JsonLoads(row.payload),
                              !.metadata = JsonLoads(row.metadata),
                              !.proof_id = RowGet(row, "proof_id").value,
                              !.batch_id = RowGet(row, "batch_id").value])

\* [self._row_to_record(row) for row in rows]
RowsToRecords(rows) ==
    IF \E i \in 1..Len(rows) : RowToRecord(rows[i]).exc # None
    THEN Raised(AttributeError)
    ELSE Returned([i \in 1..Len(rows) |-> RowToRecord(rows[i]).value])

(***************************************************************************)
(* Threads and the SQLite write transaction.                               *)
(***************************************************************************)
NoTx == [owner |-> None, actions |-> <<>>, tags |-> {}]

IdleFrame == [pc |-> "idle", op |-> None, arg |-> <<>>, emitted |-> <<>>,
              fetched |-> <<>>, ret |-> Returned(None)]

Idle(t) == th[t].pc = "idle"

\* a call that starts: its arguments, nothing emitted, fetched or returned yet
Enter(t, op, pc, arg) ==
    [th EXCEPT ![t] = [pc |-> pc, op |-> op, arg |-> arg, emitted |-> <<>>,
                       fetched |-> <<>>, ret |-> Returned(None)]]

\* a lock that stays with its holder
ReleasedByNobody(t) == lock

\* the `with self._lock:` of a write path releases the lock on the way out
ReleasedBy(t) == IF lock = t THEN None ELSE lock

\* a connection context that commits on the way out of a failed block
RollbackCommitting(t, exc) ==
    /\ actions' = IF wtx.owner = t THEN wtx.actions ELSE actions
    /\ action_tags' = IF wtx.owner = t THEN wtx.tags ELSE action_tags
    /\ wtx' = IF wtx.owner = t THEN NoTx ELSE wtx
    /\ lock' = ReleasedBy(t)
    /\ th' = [th EXCEPT ![t].pc = "raised", ![t].ret = Raised(exc)]

\* _connection(): an exception inside the block rolls the transaction back,
\* closes the connection and is raised again; the enclosing `with self._lock`
\* releases the lock and the exception reaches the caller
Rollback(t, exc) ==
    /\ wtx' = IF wtx.owner = t THEN NoTx ELSE wtx
    /\ lock' = ReleasedBy(t)
    /\ th' = [th EXCEPT ![t].pc = "raised", ![t].ret = Raised(exc)]
    /\ UNCHANGED <<actions, action_tags>>

\* a write statement of thread t on its connection: the first one takes
\* SQLite's write lock and starts from the committed tables
CanWrite(t) == wtx.owner \in {None, t}
Working(t) == IF wtx.owner = t THEN wtx
              ELSE [owner |-> t, actions |-> actions, tags |-> action_tags]

\* _connection(): conn.commit() at the end of the block publishes the
\* transaction, then the connection is closed and the lock released
Commit(t, pc) ==
    /\ actions' = Working(t).actions
    /\ action_tags' = Working(t).tags
    /\ wtx' = IF wtx.owner = t THEN NoTx ELSE wtx
    /\ lock' = ReleasedBy(t)
    /\ th' = [th EXCEPT ![t].pc = pc]

\* a call hands its outcome to the caller and the thread is free again
Return(t) ==
    /\ th[t].pc \in {"done", "raised"}
    /\ th' = [th EXCEPT ![t] = IdleFrame]
    /\ UNCHANGED <<actions, action_tags, wtx, lock, outsideStore>>

\* a statement fails with a storage error when the environment makes it fail,
\* or when SQLite's write lock stays with another connection past the timeout
Failures(t, I) == I.failures \cup (IF CanWrite(t) THEN {} ELSE {TRUE})

(***************************************************************************)
(* ActionLogger.log_action                                                 *)
(***************************************************************************)
\* timestamp or int(time.time()); an optional argument is <<>> when it is None
\* (or not given) and <<v>> when it is v
EffectiveTimestamp(timestamp, now) ==
    IF timestamp = <<>> \/ timestamp[1] = 0 THEN now ELSE timestamp[1]

\* the id, the signature and the ActionRecord are built, then the lock is
\* taken and the connection opened
LogActionCall(t, I) ==
    /\ Idle(t)
    /\ lock = None
    /\ Len(actions) < MaxRows
    /\ \E action_type \in I.kinds, payload \in I.payloads, timestamp \in I.timestamps,
          tags \in I.tagLists, metadata \in I.metas, now \in NowValues,
          entropy \in EntropyUsed(<<>>) :
          LET ts == EffectiveTimestamp(timestamp, now)
              record == NewRecord(action_type, payload, ts, entropy,
                                  IF metadata = <<>> THEN EmptyDict ELSE metadata[1], now)
          IN th' = Enter(t, "log_action", "la_insert",
                         [record |-> record, tags |-> tags, left |-> tags])
    /\ lock' = t
    /\ UNCHANGED <<actions, action_tags, wtx, outsideStore>>

\* INSERT INTO actions (...) VALUES (...)
LogActionInsert(t, I) ==
    /\ th[t].pc = "la_insert"
    /\ \E fail \in Failures(t, I) :
          IF fail THEN Rollback(t, OperationalError)
          ELSE /\ CanWrite(t)
               /\ IF PrimaryKeyFree(Working(t).actions, th[t].arg.record.id)
                  THEN /\ wtx' = [Working(t) EXCEPT !.actions = Append(@, RowOf(th[t].arg.record))]
                       /\ th' = [th EXCEPT ![t].pc = IF th[t].arg.left = <<>>
                                                     THEN "la_commit" ELSE "la_tags"]
                       /\ UNCHANGED <<actions, action_tags, lock>>
                  ELSE Rollback(t, IntegrityError)
    /\ UNCHANGED outsideStore

\* INSERT INTO action_tags (action_id, tag) VALUES (?, ?), for the next tag:
\* (action_id, tag) is the PRIMARY KEY
LogActionInsertTag(t, I) ==
    /\ th[t].pc = "la_tags"
    /\ \E fail \in Failures(t, I) :
          IF fail THEN Rollback(t, OperationalError)
          ELSE LET row == <<th[t].arg.record.id, Head(th[t].arg.left)>> IN
               /\ CanWrite(t)
               /\ IF row \notin Working(t).tags
                  THEN /\ wtx' = [Working(t) EXCEPT !.tags = @ \cup {row}]
                       /\ th' = [th EXCEPT ![t].arg.left = Tail(@),
                                           ![t].pc = IF Tail(th[t].arg.left) = <<>>
                                                     THEN "la_commit" ELSE "la_tags"]
                       /\ UNCHANGED <<actions, action_tags, lock>>
                  ELSE Rollback(t, IntegrityError)
    /\ UNCHANGED outsideStore

\* the end of the `with` blocks: commit, close, release the lock
LogActionCommit(t, I) ==
    /\ th[t].pc = "la_commit"
    /\ \E fail \in Failures(t, I) :
          IF fail THEN Rollback(t, OperationalError) ELSE Commit(t, "la_emit")
    /\ UNCHANGED outsideStore

\* self._emit_event('action_logged', record); return record
LogActionEmit(t) ==
    /\ th[t].pc = "la_emit"
    /\ th' = [th EXCEPT ![t].pc = "done",
                        ![t].emitted = Append(@, <<"action_logged", th[t].arg.record.id>>),
                        ![t].ret = Returned(th[t].arg.record)]
    /\ UNCHANGED <<actions, action_tags, wtx, lock, outsideStore>>

(***************************************************************************)
(* ActionLogger.update_proof_status                                        *)
(***************************************************************************)
\* ids a caller may pass: those of stored rows and one that is not stored
KnownIds == RowIds(actions) \cup {GhostId}

UpdateProofStatusCall(t, I) ==
    /\ Idle(t)
    /\ lock = None
    /\ \E action_id \in KnownIds, request \in I.requests :
          th' = Enter(t, "update_proof_status", "up_exec",
                      [action_id |-> action_id, status |-> request[1],
                       tx_hash |-> request[2], proof_id |-> request[3]])
    /\ lock' = t
    /\ UNCHANGED <<actions, action_tags, wtx, outsideStore>>

\* UPDATE actions SET proof_status = ?, tx_hash = ?, proof_id = ? WHERE id = ?
UpdateProofStatusExec(t, I) ==
    /\ th[t].pc = "up_exec"
    /\ \E fail \in Failures(t, I) :
          IF fail THEN Rollback(t, OperationalError)
          ELSE /\ CanWrite(t)
               /\ wtx' = [Working(t) EXCEPT !.actions =
                             SqlUpdateStatus(@, th[t].arg.action_id, th[t].arg.status,
                                             th[t].arg.tx_hash, th[t].arg.proof_id)]
               /\ th' = [th EXCEPT ![t].pc = "up_commit"]
               /\ UNCHANGED <<actions, action_tags, lock>>
    /\ UNCHANGED outsideStore

UpdateProofStatusCommit(t, I) ==
    /\ th[t].pc = "up_commit"
    /\ \E fail \in Failures(t, I) :
          IF fail THEN Rollback(t, OperationalError) ELSE Commit(t, "up_emit")
    /\ UNCHANGED outsideStore

\* self._emit_event('proof_status_changed', {...})
UpdateProofStatusEmit(t) ==
    /\ th[t].pc = "up_emit"
    /\ th' = [th EXCEPT ![t].pc = "done",
                        ![t].emitted = Append(@, <<"proof_status_changed", th[t].arg.action_id,
                                                   th[t].arg.status, th[t].arg.tx_hash>>)]
    /\ UNCHANGED <<actions, action_tags, wtx, lock, outsideStore>>

(***************************************************************************)
(* ActionLogger.set_batch_id, add_tag, remove_tag                          *)
(***************************************************************************)
SetBatchIdCall(t, I) ==
    /\ Idle(t)
    /\ lock = None
    /\ \E action_ids \in SUBSET KnownIds, batch_id \in I.batchIds :
          th' = Enter(t, "set_batch_id", "sb_exec",
                      [action_ids |-> action_ids, batch_id |-> batch_id])
    /\ lock' = t
    /\ UNCHANGED <<actions, action_tags, wtx, outsideStore>>

\* UPDATE actions SET batch_id = ? WHERE id IN (...)
SetBatchIdExec(t, I) ==
    /\ th[t].pc = "sb_exec"
    /\ \E fail \in Failures(t, I) :
          IF fail THEN Rollback(t, OperationalError)
          ELSE /\ CanWrite(t)
               /\ wtx' = [Working(t) EXCEPT !.actions =
                             SqlUpdateBatch(@, th[t].arg.action_ids, th[t].arg.batch_id)]
               /\ th' = [th EXCEPT ![t].pc = "sb_commit"]
               /\ UNCHANGED <<actions, action_tags, lock>>
    /\ UNCHANGED outsideStore

SetBatchIdCommit(t, I) ==
    /\ th[t].pc = "sb_commit"
    /\ \E fail \in Failures(t, I) :
          IF fail THEN Rollback(t, OperationalError) ELSE Commit(t, "done")
    /\ UNCHANGED outsideStore

\* a DELETE that also removes the action rows the tag belonged to
SqlDeleteTagAndAction(tx, action_id, tag) ==
    [tx EXCEPT !.tags = @ \ {<<action_id, tag>>},
               !.actions = SelectSeq(@, LAMBDA r : r.id # action_id)]

\* DELETE FROM action_tags WHERE action_id = ? AND tag = ?, in transaction tx
SqlDeleteTag(tx, action_id, tag) == [tx EXCEPT !.tags = @ \ {<<action_id, tag>>}]

\* add_tag and remove_tag open their connection without taking self._lock
TagCall(t, I) ==
    /\ Idle(t)
    /\ \E op \in {"add_tag", "remove_tag"}, action_id \in RowIds(actions) \cup I.tagGhosts,
          tag \in I.tags :
          th' = Enter(t, op, "tag_exec", [action_id |-> action_id, tag |-> tag])
    /\ UNCHANGED <<actions, action_tags, wtx, lock, outsideStore>>

\* INSERT OR IGNORE INTO action_tags ... / DELETE FROM action_tags WHERE ...
TagExec(t, I) ==
    /\ th[t].pc = "tag_exec"
    /\ \E fail \in Failures(t, I) :
          IF fail THEN Rollback(t, OperationalError)
          ELSE LET row == <<th[t].arg.action_id, th[t].arg.tag>> IN
               /\ CanWrite(t)
               /\ wtx' = IF th[t].op = "add_tag"
                         THEN [Working(t) EXCEPT !.tags = @ \cup {row}]
                         ELSE SqlDeleteTag(Working(t), row[1], row[2])
               /\ th' = [th EXCEPT ![t].pc = "tag_commit"]
               /\ UNCHANGED <<actions, action_tags, lock>>
    /\ UNCHANGED outsideStore

TagCommit(t, I) ==
    /\ th[t].pc = "tag_commit"
    /\ \E fail \in Failures(t, I) :
          IF fail THEN Rollback(t, OperationalError) ELSE Commit(t, "done")
    /\ UNCHANGED outsideStore

(***************************************************************************)
(* ActionLogger.log_actions_batch                                          *)
(***************************************************************************)
\* action_data.get('timestamp', int(time.time())): <<>> when the key is absent
BatchTimestamp(timestamp, now) == IF timestamp = <<>> THEN now ELSE timestamp[1]

LogActionsBatchCall(t, I) ==
    /\ Idle(t)
    /\ lock = None
    /\ \E items \in I.batches :
          /\ Len(actions) + Len(items) <= MaxRows
          /\ th' = Enter(t, "log_actions_batch", IF items = <<>> THEN "lb_commit" ELSE "lb_insert",
                         [items |-> items, left |-> items, records |-> <<>>])
    /\ lock' = t
    /\ UNCHANGED <<actions, action_tags, wtx, outsideStore>>

\* the head of one turn of the loop: action_data['action_type'], ActionType(...)
\* of a str, action_data['payload']; the exception it raises, or None
BatchItemError(item) ==
    IF "action_type" \in item.absent THEN KeyError
    ELSE IF item.action_type \notin ActionTypes THEN ValueError
    ELSE IF "payload" \in item.absent THEN KeyError
    ELSE None

\* one turn of the loop: the item's action type and payload, the id, the
\* signature, the record and its INSERT; the metadata column takes its
\* default '{}'
LogActionsBatchInsert(t, I) ==
    /\ th[t].pc = "lb_insert"
    /\ \E fail \in Failures(t, I), now \in NowValues, entropy \in EntropyUsed(<<>>) :
          IF BatchItemError(Head(th[t].arg.left)) # None
          THEN Rollback(t, BatchItemError(Head(th[t].arg.left)))
          ELSE IF fail THEN Rollback(t, OperationalError)
          ELSE LET item == Head(th[t].arg.left)
                   record == NewRecord(item.action_type, item.payload,
                                       BatchTimestamp(item.timestamp, now), entropy,
                                       EmptyDict, now)
               IN /\ CanWrite(t)
                  /\ IF PrimaryKeyFree(Working(t).actions, record.id)
                     THEN /\ wtx' = [Working(t) EXCEPT !.actions = Append(@, RowOf(record))]
                          /\ th' = [th EXCEPT ![t].arg.left = Tail(@),
                                              ![t].arg.records = Append(@, record),
                                              ![t].pc = IF Tail(th[t].arg.left) = <<>>
                                                        THEN "lb_commit" ELSE "lb_insert"]
                          /\ UNCHANGED <<actions, action_tags, lock>>
                     ELSE Rollback(t, IntegrityError)
    /\ UNCHANGED outsideStore

\* commit and release the lock
LogActionsBatchCommit(t, I) ==
    /\ th[t].pc = "lb_commit"
    /\ \E fail \in Failures(t, I) :
          IF fail THEN Rollback(t, OperationalError) ELSE Commit(t, "lb_return")
    /\ UNCHANGED outsideStore

\* return records
LogActionsBatchReturn(t) ==
    /\ th[t].pc = "lb_return"
    /\ th' = [th EXCEPT ![t].pc = "done", ![t].ret = Returned(th[t].arg.records)]
    /\ UNCHANGED <<actions, action_tags, wtx, lock, outsideStore>>

(***************************************************************************)
(* ActionLogger.vacuum and ActionLogger.close                              *)
(***************************************************************************)
\* the frame of a call that ran in one step
OneStep(t, op, ret) ==
    [th EXCEPT ![t] = [IdleFrame EXCEPT !.pc = IF ret.exc = None THEN "done" ELSE "raised",
                                        !.op = op, !.ret = ret]]

\* VACUUM on a connection of its own, without self._lock: the file is rebuilt
\* with the same rows, or the statement fails and nothing changes
Vacuum(t, I) ==
    /\ Idle(t)
    /\ \E fail \in Failures(t, I) :
          th' = OneStep(t, "vacuum", IF fail THEN Raised(OperationalError) ELSE Returned(None))
    /\ UNCHANGED <<actions, action_tags, wtx, lock, outsideStore>>

\* close takes the lock and clears self._buffer, a list nothing ever appends
\* to; the database is not touched and the logger stays usable
Close(t) ==
    /\ Idle(t)
    /\ lock = None
    /\ th' = OneStep(t, "close", Returned(None))
    /\ UNCHANGED <<actions, action_tags, wtx, lock, outsideStore>>

(***************************************************************************)
(* The read paths: each opens its own connection and runs one SELECT,      *)
(* which sees the committed tables.                                        *)
(***************************************************************************)
\* reads that go through the writer's connection and see its uncommitted rows
ReaderViewUncommitted ==
    IF wtx.owner = None THEN [actions |-> actions, tags |-> action_tags]
    ELSE [actions |-> wtx.actions, tags |-> wtx.tags]

ReaderView == [actions |-> actions, tags |-> action_tags]

\* the frame of a read that fetched `rows` and returns `ret`
Read(t, op, arg, rows, ret) ==
    [th EXCEPT ![t] = [pc |-> "done", op |-> op, arg |-> arg, emitted |-> <<>>,
                       fetched |-> rows, ret |-> ret]]

\* SELECT * FROM actions WHERE id = ?; fetchone(); the record or None
GetAction(t) ==
    /\ Idle(t)
    /\ \E action_id \in KnownIds :
          \E rows \in SqlSelect(ReaderView.actions, SqlWhere(ReaderView.actions, "id", action_id), TRUE, -1) :
             th' = Read(t, "get_action", [action_id |-> action_id], rows,
                        IF rows = <<>> THEN Returned(None) ELSE RowToRecord(rows[1]))
    /\ UNCHANGED <<actions, action_tags, wtx, lock, outsideStore>>

\* SELECT * FROM actions WHERE proof_status = 'pending' ORDER BY timestamp ASC LIMIT ?
GetPendingActions(t, I) ==
    /\ Idle(t)
    /\ \E limit \in I.limits :
          \E rows \in SqlSelect(ReaderView.actions,
                                SqlWhere(ReaderView.actions, "proof_status", PENDING),
                                TRUE, limit) :
             th' = Read(t, "get_pending_actions", [limit |-> limit], rows, RowsToRecords(rows))
    /\ UNCHANGED <<actions, action_tags, wtx, lock, outsideStore>>

\* SELECT a.* FROM actions a JOIN action_tags t ON a.id = t.action_id
\* WHERE t.tag = ? ORDER BY a.timestamp DESC LIMIT ?
GetActionsByTag(t, I) ==
    /\ Idle(t)
    /\ \E tag \in I.tags, limit \in I.limits :
          \E rows \in SqlSelect(ReaderView.actions,
                                {i \in DOMAIN ReaderView.actions :
                                    <<ReaderView.actions[i].id, tag>> \in ReaderView.tags},
                                FALSE, limit) :
             th' = Read(t, "get_actions_by_tag", [tag |-> tag, limit |-> limit], rows,
                        RowsToRecords(rows))
    /\ UNCHANGED <<actions, action_tags, wtx, lock, outsideStore>>

\* SELECT * FROM actions ORDER BY timestamp DESC LIMIT ?
GetRecentActions(t, I) ==
    /\ Idle(t)
    /\ \E limit \in I.limits :
          \E rows \in SqlSelect(ReaderView.actions, DOMAIN ReaderView.actions, FALSE, limit) :
             th' = Read(t, "get_recent_actions", [limit |-> limit], rows, RowsToRecords(rows))
    /\ UNCHANGED <<actions, action_tags, wtx, lock, outsideStore>>

\* SELECT column, COUNT(*) FROM actions GROUP BY column, read into a dict: one
\* key for each value some row has
CountBy(tbl, column) ==
    [v \in {tbl[i][column] : i \in DOMAIN tbl} |-> Cardinality(SqlWhere(tbl, column, v))]

\* dict.get(key, 0)
GetOrZero(dict, key) == IF key \in DOMAIN dict THEN dict[key] ELSE 0

\* SELECT MIN(timestamp), MAX(timestamp): a pair of NULLs (empty tuples here)
\* over an empty table
TimeStats(tbl) ==
    LET T == {tbl[i].timestamp : i \in DOMAIN tbl}
    IN IF T = {} THEN << <<>>, <<>> >>
       ELSE << <<CHOOSE x \in T : \A y \in T : x <= y>>,
               <<CHOOSE x \in T : \A y \in T : x >= y>> >>

\* the dict get_statistics returns, from the results of its six SELECTs
StatisticsDict(fetched) ==
    [total_actions |-> fetched[1],
     pending_proofs |-> GetOrZero(fetched[2], PENDING),
     verified_proofs |-> GetOrZero(fetched[2], VERIFIED),
     failed_proofs |-> GetOrZero(fetched[2], FAILED),
     actions_by_status |-> fetched[2],
     actions_by_type |-> fetched[3],
     first_action_timestamp |-> fetched[4][1],
     last_action_timestamp |-> fetched[4][2],
     actions_today |-> fetched[5],
     batch_count |-> fetched[6]]

\* get_statistics opens one connection, takes no lock and runs six SELECTs;
\* outside a transaction each SELECT sees the tables as committed at the
\* time it runs.  The call runs the first one, SELECT COUNT(*) FROM actions
GetStatisticsCall(t) ==
    /\ Idle(t)
    /\ th' = [th EXCEPT ![t] = [pc |-> "gs_select", op |-> "get_statistics", arg |-> <<>>,
                                emitted |-> <<>>, fetched |-> <<Len(ReaderView.actions)>>,
                                ret |-> Returned(None)]]
    /\ UNCHANGED <<actions, action_tags, wtx, lock, outsideStore>>

\* the next SELECT of get_statistics: the counts by proof_status, the counts
\* by action_type, the first and last timestamp, the rows since today_start
\* (midnight UTC of the wall clock, read just before), the distinct batch
\* ids; after the last one the dict is returned
GetStatisticsSelect(t, I) ==
    /\ th[t].pc = "gs_select"
    /\ LET tbl == ReaderView.actions
           n == Len(th[t].fetched) + 1
       IN \E today_start \in I.todayStarts :
             LET result ==
                   CASE n = 2 -> CountBy(tbl, "proof_status")
                     [] n = 3 -> CountBy(tbl, "action_type")
                     [] n = 4 -> TimeStats(tbl)
                     [] n = 5 -> Cardinality({i \in DOMAIN tbl : tbl[i].timestamp >= today_start})
                     [] n = 6 -> Cardinality({tbl[i].batch_id : i \in DOMAIN tbl} \ {None})
                 fetched == Append(th[t].fetched, result)
             IN th' = [th EXCEPT ![t].fetched = fetched,
                                 ![t].pc = IF n = 6 THEN "done" ELSE "gs_select",
                                 ![t].ret = IF n = 6 THEN Returned(StatisticsDict(fetched)) ELSE @]
    /\ UNCHANGED <<actions, action_tags, wtx, lock, outsideStore>>

\* SELECT * FROM actions ORDER BY timestamp ASC LIMIT ? OFFSET ?: the rows in
\* an order the ORDER BY allows, without the first `offset' of them, cut to
\* the limit
SqlPage(tbl, limit, offset) ==
    {SubSeq(all, offset + 1, IF offset + limit < Len(all) THEN offset + limit ELSE Len(all)) :
        all \in SqlSelect(tbl, DOMAIN tbl, TRUE, -1)}

\* iterate_all_actions(batch_size) is a generator: offset starts at 0.
\* at_start is history: the ids persisted when the iteration started
IterateAllActionsCall(t, I) ==
    /\ Idle(t)
    /\ \E batch_size \in I.batchSizes :
          th' = Enter(t, "iterate_all_actions", "it_page",
                      [batch_size |-> batch_size, offset |-> 0,
                       at_start |-> {actions[i].id : i \in DOMAIN actions}])
    /\ UNCHANGED <<actions, action_tags, wtx, lock, outsideStore>>

\* one turn of the while loop: a connection of its own, no lock, the next
\* page fetched; without rows the generator ends
IterateAllActionsPage(t) ==
    /\ th[t].pc = "it_page"
    /\ \E rows \in SqlPage(ReaderView.actions, th[t].arg.batch_size, th[t].arg.offset) :
          th' = [th EXCEPT ![t].fetched = rows,
                           ![t].pc = IF rows = <<>> THEN "done" ELSE "it_yield",
                           ![t].ret = Returned(None)]
    /\ UNCHANGED <<actions, action_tags, wtx, lock, outsideStore>>

\* yield self._row_to_record(row) for the next row of the page: the record
\* is handed out, or the exception of the conversion ends the generator;
\* after the last row of the page offset += batch_size
IterateAllActionsYield(t) ==
    /\ th[t].pc = "it_yield"
    /\ LET record == RowToRecord(Head(th[t].fetched))
           rest == Tail(th[t].fetched)
       IN th' = IF record.exc # None
                THEN [th EXCEPT ![t].pc = "raised", ![t].ret = record]
                ELSE [th EXCEPT ![t].emitted = Append(@, record.value),
                                ![t].fetched = rest,
                                ![t].pc = IF rest = <<>> THEN "it_page" ELSE "it_yield",
                                ![t].arg.offset = IF rest = <<>> THEN @ + th[t].arg.batch_size
                                                  ELSE @]
    /\ UNCHANGED <<actions, action_tags, wtx, lock, outsideStore>>

(***************************************************************************)
(* generate_action_id called directly.                                     *)
(***************************************************************************)
IdDids == {DidOf(<<"K", "1">>), DidOf(<<"K", "1", "1">>)}
IdTimestamps == {1, 11, 1000}
IdEntropies == {<<>>, <<<<1>>>>, <<<<17>>>>, <<<<1, 17>>>>}

IdCalls ==
    [did : IdDids, action_type : ActionTypes, timestamp : IdTimestamps,
     entropy : IdEntropies, used : {<<>>}, id : {<<>>}, made : {FALSE}]

\* the call draws its entropy when none is given and computes the id
IdCallMade(call, entropy) ==
    [call EXCEPT !.used = entropy,
                 !.id = GenerateActionId(call.did, call.action_type, call.timestamp, entropy),
                 !.made = TRUE]

GenerateActionIdA ==
    /\ ~idCallA.made
    /\ \E entropy \in EntropyUsed(idCallA.entropy) : idCallA' = IdCallMade(idCallA, entropy)
    /\ UNCHANGED <<storeVars, restVars, idCallB, merkleVars, engineVars>>

GenerateActionIdB ==
    /\ ~idCallB.made
    /\ \E entropy \in EntropyUsed(idCallB.entropy) : idCallB' = IdCallMade(idCallB, entropy)
    /\ UNCHANGED <<storeVars, restVars, idCallA, merkleVars, engineVars>>

(***************************************************************************)
(* MerkleTree (crypto/keys.py).  A byte string is a sequence of units; a   *)
(* unit is <<name, <<>>>> for a plain byte and <<"sha256", m>> for the 32  *)
(* bytes of the SHA-256 digest of the byte string m, so two digests are    *)
(* equal exactly when their messages are.                                  *)
(***************************************************************************)
Byte(name) == <<name, <<>>>>

\* hashlib.sha256(message).digest()
Sha256Digest(message) == << <<"sha256", message>> >>

\* current_layer = [hashlib.sha256(leaf).digest() for leaf in self.leaves]
LeafLayer(leaves) == [i \in 1..Len(leaves) |-> Sha256Digest(leaves[i])]

\* a layer built from the pairs only, leaving out a last node without partner
NextLayerDroppingOdd(layer) ==
    [k \in 1..(IF Len(layer) = 1 THEN 1 ELSE Len(layer) \div 2) |->
        Sha256Digest(layer[2 * k - 1] \o layer[IF 2 * k <= Len(layer) THEN 2 * k ELSE 2 * k - 1])]

\* one turn of the while loop: nodes are combined in pairs, a last node
\* without partner is combined with itself
NextLayer(layer) ==
    [k \in 1..((Len(layer) + 1) \div 2) |->
        LET left == layer[2 * k - 1]
            right == IF 2 * k <= Len(layer) THEN layer[2 * k] ELSE left
        IN Sha256Digest(left \o right)]

\* the layers from current_layer up to the layer of one node
RECURSIVE LayersFrom(_)
LayersFrom(layer) ==
    IF Len(layer) <= 1 THEN <<layer>> ELSE <<layer>> \o LayersFrom(NextLayer(layer))

\* _build_tree: self.layers
BuildTree(leaves) ==
    IF leaves = <<>> THEN << <<Sha256Digest(<<>>)>> >> ELSE LayersFrom(LeafLayer(leaves))

\* root: self.layers[-1][0]
Root(layers) == layers[Len(layers)][1]

IndexError == "IndexError"

RECURSIVE Pow2(_)
Pow2(n) == IF n = 0 THEN 1 ELSE 2 * Pow2(n - 1)

\* a proof step that names the wrong side
ProofStepSwapped(layer, current_index) ==
    LET even == current_index % 2 = 0
        sibling_index == IF even THEN current_index + 1 ELSE current_index - 1
    IN IF sibling_index < Len(layer)
       THEN [sibling |-> layer[sibling_index + 1], position |-> IF even THEN "left" ELSE "right"]
       ELSE [sibling |-> layer[current_index + 1], position |-> "right"]

\* one turn of get_proof's loop, at 0-based current_index in `layer`
ProofStep(layer, current_index) ==
    LET even == current_index % 2 = 0
        sibling_index == IF even THEN current_index + 1 ELSE current_index - 1
    IN IF sibling_index < Len(layer)
       THEN [sibling |-> layer[sibling_index + 1], position |-> IF even THEN "right" ELSE "left"]
       ELSE [sibling |-> layer[current_index + 1], position |-> "right"]

\* one turn of get_proof's loop at a negative current_index: the remainder of
\* a negative number by 2 is 0 or 1, the sibling index is negative too and so
\* below len(layer), and layer[sibling_index] counts from the end of the
\* list, or raises IndexError before its start
ProofStepFromEnd(layer, current_index) ==
    LET even == current_index % 2 = 0
        sibling_index == IF even THEN current_index + 1 ELSE current_index - 1
    IN IF Len(layer) + sibling_index < 0 THEN Raised(IndexError)
       ELSE Returned([sibling |-> layer[Len(layer) + sibling_index + 1],
                      position |-> IF even THEN "right" ELSE "left"])

\* get_proof(index): only an index of len(leaves) or more is refused; then
\* one step per layer of self.layers[:-1], current_index //= 2 after each
\* (floor division, so a negative index stays negative)
GetProof(leaves, layers, index) ==
    IF index >= Len(leaves) THEN Raised(IndexError)
    ELSE IF index >= 0
    THEN Returned([l \in 1..(Len(layers) - 1) |-> ProofStep(layers[l], index \div Pow2(l - 1))])
    ELSE LET steps == [l \in 1..(Len(layers) - 1) |->
                          ProofStepFromEnd(layers[l], index \div Pow2(l - 1))]
         IN IF \E l \in DOMAIN steps : steps[l].exc # None THEN Raised(IndexError)
            ELSE Returned([l \in DOMAIN steps |-> steps[l].value])

\* a verifier that always puts the sibling on the right
CombineIgnoringSide(current, step) == Sha256Digest(current \o step.sibling)

\* one turn of verify_proof's loop
Combine(current, step) ==
    IF step.position = "left" THEN Sha256Digest(step.sibling \o current)
    ELSE Sha256Digest(current \o step.sibling)

RECURSIVE PathHash(_, _)
PathHash(current, proof) ==
    IF proof = <<>> THEN current ELSE PathHash(Combine(current, Head(proof)), Tail(proof))

\* verify_proof(leaf, proof, root)
VerifyProof(leaf, proof, root) == PathHash(Sha256Digest(leaf), proof) = root

\* the leaves the trees are built from: b"a", b"b" and the 64 bytes
\* sha256(b"a").digest() + sha256(b"b").digest()
LeafA == <<Byte("a")>>
LeafB == <<Byte("b")>>
LeafAB == Sha256Digest(LeafA) \o Sha256Digest(LeafB)
Leaves == {LeafA, LeafB, LeafAB}

MaxLeaves == 5
MaxPairLeaves == 4

LeafSeqs(n) == UNION {[1..k -> Leaves] : k \in 1..n}

NoTree == [leaves |-> <<>>, layers |-> <<>>, built |-> TRUE]
NoProof == [index |-> 0, ret |-> Returned(<<>>), made |-> TRUE]
NoVerify == [leaf |-> <<>>, proof |-> <<>>, flipped |-> 0, root |-> <<>>, result |-> FALSE,
             made |-> TRUE]

MerkleIdle == mtA = NoTree /\ mtB = NoTree /\ mkProof = NoProof /\ mkVerify = NoVerify

\* MerkleTree(leaves): __init__ keeps the leaves and builds the layers
MerkleTreeA ==
    /\ ~mtA.built
    /\ mtA' = [mtA EXCEPT !.layers = BuildTree(mtA.leaves), !.built = TRUE]
    /\ UNCHANGED <<storeVars, restVars, idVars, engineVars, mtB, mkProof, mkVerify>>

MerkleTreeB ==
    /\ ~mtB.built
    /\ mtB' = [mtB EXCEPT !.layers = BuildTree(mtB.leaves), !.built = TRUE]
    /\ UNCHANGED <<storeVars, restVars, idVars, engineVars, mtA, mkProof, mkVerify>>

\* mtA.get_proof(index), for every index of a leaf and the first one past them
MerkleGetProof ==
    /\ mtA.built /\ ~mkProof.made
    /\ \E index \in 0..Len(mtA.leaves) :
          mkProof' = [index |-> index, ret |-> GetProof(mtA.leaves, mtA.layers, index),
                      made |-> TRUE]
    /\ UNCHANGED <<storeVars, restVars, idVars, engineVars, mtA, mtB, mkVerify>>

\* mtA.get_proof(index) for the indexes on both sides of the leaves as well
MerkleGetProofAnyIndex ==
    /\ mtA.built /\ ~mkProof.made
    /\ \E index \in (0 - Len(mtA.leaves) - 2)..(Len(mtA.leaves) + 1) :
          mkProof' = [index |-> index, ret |-> GetProof(mtA.leaves, mtA.layers, index),
                      made |-> TRUE]
    /\ UNCHANGED <<storeVars, restVars, idVars, engineVars, mtA, mtB, mkVerify>>

\* the proof with the side of step k changed; k = 0 changes nothing
FlipSide(proof, k) ==
    [i \in 1..Len(proof) |->
        IF i = k THEN [proof[i] EXCEPT !.position = IF @ = "left" THEN "right" ELSE "left"]
        ELSE proof[i]]

\* MerkleTree.verify_proof(leaf, proof, mtA.root), with any leaf and with the
\* proof get_proof returned or that proof with the side of one step changed
MerkleVerifyProof ==
    /\ mkProof.made /\ mkProof.ret.exc = None /\ ~mkVerify.made
    /\ \E leaf \in Leaves, k \in 0..Len(mkProof.ret.value) :
          LET proof == FlipSide(mkProof.ret.value, k) IN
          mkVerify' = [leaf |-> leaf, proof |-> proof, flipped |-> k, root |-> Root(mtA.layers),
                       result |-> VerifyProof(leaf, proof, Root(mtA.layers)), made |-> TRUE]
    /\ UNCHANGED <<storeVars, restVars, idVars, engineVars, mtA, mtB, mkProof>>

(***************************************************************************)
(* ZKProver (crypto/zkproof.py).                                           *)
(***************************************************************************)
\* hashlib.sha256(text.encode()).hexdigest()
Sha256Hex(text) == <<"sha256hex", text>>

\* what json.dumps(v, sort_keys=True) holds of a value: the items of a dict
\* regardless of their order (keys of one kind, so that they can be sorted)
RECURSIVE SortedDocument(_)
SortedDocument(v) ==
    IF v.type = "dict"
    THEN [type |-> "dict", char |-> "", count |-> 0,
          items |-> {Item(StrKey(v.items[i].key.text), SortedDocument(v.items[i].value)) :
                        i \in 1..Len(v.items)}]
    ELSE v

\* the payload keys the engine and the agent look at
FieldName == [gps |-> <<"g", "p", "s">>, lat |-> <<"l", "a", "t">>, lon |-> <<"l", "o", "n">>,
              timestamp |-> <<"t", "i", "m", "e", "s", "t", "a", "m", "p">>]

\* d.get(key, default) for a str key
DictGet(d, key, default) ==
    IF \E i \in 1..Len(d.items) : ~d.items[i].key.int /\ d.items[i].key.text = key
    THEN d.items[CHOOSE i \in 1..Len(d.items) :
                    ~d.items[i].key.int /\ d.items[i].key.text = key].value
    ELSE default

\* bool(v)
Truthy(v) ==
    IF v.type = "dict" THEN v.items # <<>>
    ELSE IF v.type = "str" THEN v.count > 0
    ELSE v.count # 0


\* "0" * 64
ZeroCommitment == <<"0", 64>>

\* _prepare_inputs(action): the CircuitInputs, or the exception raised. The
\* location is formatted as f"{lat:.6f},{lon:.6f}": a location that is no dict
\* has no get(), a coordinate that is a str cannot be formatted. sensor_data
\* is the payload without its 'gps' and 'timestamp' entries
PrepareInputs(action) ==
    LET location == DictGet(action.payload, FieldName.gps, EmptyDict)
        lat == DictGet(location, FieldName.lat, PyInt(0))
        lon == DictGet(location, FieldName.lon, PyInt(0))
        sensor_data == PyDict(SelectSeq(action.payload.items,
                           LAMBDA it : it.key.int
                                       \/ it.key.text \notin {FieldName.gps, FieldName.timestamp}))
        inputs(location_commitment) ==
            Returned([robot_did_hash |-> Sha256Hex(action.robot_did),
                      action_hash |-> Sha256Hex(<<"json", SortedDocument(action.payload)>>),
                      timestamp |-> action.timestamp,
                      location_commitment |-> location_commitment,
                      sensor_commitment |-> Sha256Hex(<<"json", SortedDocument(sensor_data)>>),
                      action_type_hash |-> Sha256Hex(action.action_type)])
    IN IF ~Truthy(location) THEN inputs(ZeroCommitment)
       ELSE IF location.type # "dict" THEN Raised(AttributeError)
       ELSE IF lat.type = "str" \/ lon.type = "str" THEN Raised(ValueError)
       ELSE IF lat.type = "dict" \/ lon.type = "dict" THEN Raised("TypeError")
       ELSE inputs(Sha256Hex(<<"%.6f,%.6f", lat.count, lon.count>>))

\* CircuitType.STANDARD and CircuitType.BATCH
CircuitType == [STANDARD |-> "roboid_standard_v3", BATCH |-> "roboid_batch_v3"]

\* generate_proof_id(action_id, circuit_id, timestamp)
GenerateProofId(action_id, circuit_id, timestamp) ==
    <<"prf_", Sha256Prefix(<<action_id, ":", circuit_id, ":", IntStr(timestamp)>>)>>

\* _create_proof_structure(inputs, circuit_type) at time `now`: proof_a,
\* proof_b and proof_c are slices of proof_hash; the public inputs are those
\* of to_public_inputs, the timestamp as 16 hex digits
CreateProofStructure(inputs, circuit_type, now) ==
    LET proof_seed == <<inputs.action_hash, IntStr(inputs.timestamp) \o IntStr(now)>> IN
    [proof_hash |-> Sha256Hex(proof_seed),
     public_inputs |-> <<inputs.robot_did_hash, inputs.action_hash,
                         <<"hex16", inputs.timestamp>>, inputs.location_commitment,
                         inputs.sensor_commitment, inputs.action_type_hash>>,
     circuit_id |-> circuit_type,
     circuit_type |-> circuit_type,
     generated_at |-> now,
     proof_id |-> GenerateProofId(<<"[:24]", inputs.action_hash>>, circuit_type, now)]

\* ZKProof.to_bytes: the JSON text of the proof, as a byte string
ToBytes(proof) == << <<"json", proof>> >>

\* bytes.hex()
Hex(bytes) == <<"hex", bytes>>

\* the prover's part of generate_proof: inputs, witness, _run_prover
RunProver(action, circuit_type, now) ==
    LET inputs == PrepareInputs(action) IN
    IF inputs.exc # None THEN inputs
    ELSE Returned(CreateProofStructure(inputs.value, circuit_type, now))

\* the locked block of generate_proof: one proof and one unit of proving time
\* counted, self._proof_cache[action.id] = proof
StatsAndCache(st, cache, id, proof) ==
    [stats |-> [st EXCEPT !.proofs_generated = @ + 1, !.total_proving_time = @ + 1],
     cache |-> {e \in cache : e[1] # id} \cup {<<id, proof>>}]

EngineThreads == {"e1", "e2"}

\* entry is history: the statistics and the cache as a generate_batch_proof
\* call found them
EngineIdleFrame == [pc |-> "idle", op |-> None, caller |-> None, actions |-> <<>>,
                    max_batch_size |-> 0,
                    left |-> <<>>, individual_proofs |-> <<>>, ret |-> Returned(None),
                    entry |-> <<>>]

\* ZKProver.__init__
EngineInit ==
    /\ proving_key_loaded = FALSE
    /\ stats = [proofs_generated |-> 0, proofs_submitted |-> 0, total_proving_time |-> 0,
                batch_proofs_generated |-> 0]
    /\ proof_cache = {}
    /\ pv = [e \in EngineThreads |-> EngineIdleFrame]

\* CONFIG.MAX_BATCH_SIZE
MAX_BATCH_SIZE == 100

\* calls start while the proofs and batches counted are at most MaxProofs
MaxProofs == 3

\* generate_proof(action): one proof, counted and cached, or the exception
GenerateProof(e, J) ==
    /\ pv[e].pc = "idle"
    /\ stats.proofs_generated + stats.batch_proofs_generated <= MaxProofs
    /\ \E action \in J.records, now \in NowValues :
          LET proof == RunProver(action, CircuitType.STANDARD, now)
              after == StatsAndCache(stats, proof_cache, action.id, proof.value)
          IN /\ pv' = [pv EXCEPT ![e] = [EngineIdleFrame EXCEPT
                                            !.pc = IF proof.exc = None THEN "done" ELSE "raised",
                                            !.op = "generate_proof", !.caller = J.caller,
                                            !.actions = <<action>>,
                                            !.ret = proof]]
             /\ stats' = IF proof.exc = None THEN after.stats ELSE stats
             /\ proof_cache' = IF proof.exc = None THEN after.cache ELSE proof_cache
    /\ proving_key_loaded' = TRUE
    /\ UNCHANGED <<storeVars, restVars, idVars, merkleVars>>

\* a size check that also rejects a list of exactly max_batch_size
BatchTooLargeAtLimit(actions_, max_batch_size) == Len(actions_) >= max_batch_size

\* if len(actions) > max_batch_size: raise ValueError
BatchTooLarge(actions_, max_batch_size) == Len(actions_) > max_batch_size

\* generate_batch_proof(actions, max_batch_size): the size check, then the
\* proving key; an optional argument is <<>> when it is not given
GenerateBatchProofCall(e, J) ==
    /\ pv[e].pc = "idle"
    /\ stats.proofs_generated + stats.batch_proofs_generated <= MaxProofs
    /\ \E actions_ \in J.lists, size \in J.maxSizes :
          LET max_batch_size == IF size = <<>> THEN MAX_BATCH_SIZE ELSE size[1]
              frame == [EngineIdleFrame EXCEPT !.op = "generate_batch_proof",
                                               !.caller = J.caller,
                                               !.actions = actions_, !.left = actions_,
                                               !.max_batch_size = max_batch_size,
                                               !.entry = <<[stats |-> stats,
                                                            cache |-> proof_cache]>>]
          IN IF BatchTooLarge(actions_, max_batch_size)
             THEN /\ pv' = [pv EXCEPT ![e] = [frame EXCEPT !.pc = "raised",
                                                           !.ret = Raised(ValueError)]]
                  /\ UNCHANGED proving_key_loaded
             ELSE /\ pv' = [pv EXCEPT ![e] = [frame EXCEPT !.pc = IF actions_ = <<>>
                                                                  THEN "gb_tree" ELSE "gb_loop"]]
                  /\ proving_key_loaded' = TRUE
    /\ UNCHANGED <<storeVars, restVars, idVars, merkleVars, stats, proof_cache>>

\* a loop that puts each proof in front of the earlier ones
CollectedInFront(individual_proofs, proof) == <<proof>> \o individual_proofs

\* individual_proofs.append(proof)
Collected(individual_proofs, proof) == Append(individual_proofs, proof)

\* one turn of the loop: generate_proof(action, CircuitType.BATCH), appended
GenerateBatchProofStep(e) ==
    /\ pv[e].pc = "gb_loop"
    /\ \E now \in NowValues :
          LET action == Head(pv[e].left)
              proof == RunProver(action, CircuitType.BATCH, now)
              after == StatsAndCache(stats, proof_cache, action.id, proof.value)
          IN IF proof.exc # None
             THEN /\ pv' = [pv EXCEPT ![e].pc = "raised", ![e].ret = proof]
                  /\ UNCHANGED <<stats, proof_cache>>
             ELSE /\ pv' = [pv EXCEPT ![e].left = Tail(@),
                                       ![e].individual_proofs = Collected(@, proof.value),
                                       ![e].pc = IF Tail(pv[e].left) = <<>>
                                                 THEN "gb_tree" ELSE "gb_loop"]
                  /\ stats' = after.stats
                  /\ proof_cache' = after.cache
    /\ UNCHANGED <<storeVars, restVars, idVars, merkleVars, proving_key_loaded>>

\* a BatchProof whose aggregated proof commits to the hash of the robot's
\* DID in place of the root
NewBatchProofOverDid(did, actions_, individual_proofs, now) ==
    LET proof_leaves == [i \in 1..Len(individual_proofs) |-> ToBytes(individual_proofs[i])]
        root_hex == Hex(Root(BuildTree(proof_leaves)))
        aggregated_inputs == [robot_did_hash |-> Sha256Hex(did),
                              action_hash |-> Sha256Hex(did),
                              timestamp |-> now,
                              location_commitment |-> ZeroCommitment,
                              sensor_commitment |-> ZeroCommitment,
                              action_type_hash |-> Sha256Hex(<<"B", "A", "T", "C", "H">>)]
    IN [individual_proofs |-> individual_proofs,
        aggregated_proof |-> CreateProofStructure(aggregated_inputs, CircuitType.BATCH, now),
        merkle_root |-> root_hex,
        action_count |-> Len(actions_),
        generated_at |-> now]

\* the BatchProof of generate_batch_proof: the Merkle tree over the serialized
\* proofs and the aggregated proof over its root
NewBatchProof(did, actions_, individual_proofs, now) ==
    LET proof_leaves == [i \in 1..Len(individual_proofs) |-> ToBytes(individual_proofs[i])]
        root_hex == Hex(Root(BuildTree(proof_leaves)))
        aggregated_inputs == [robot_did_hash |-> Sha256Hex(did),
                              action_hash |-> root_hex,
                              timestamp |-> now,
                              location_commitment |-> ZeroCommitment,
                              sensor_commitment |-> ZeroCommitment,
                              action_type_hash |-> Sha256Hex(<<"B", "A", "T", "C", "H">>)]
    IN [individual_proofs |-> individual_proofs,
        aggregated_proof |-> CreateProofStructure(aggregated_inputs, CircuitType.BATCH, now),
        merkle_root |-> root_hex,
        action_count |-> Len(actions_),
        generated_at |-> now]

\* after the loop: tree, aggregated proof, batch_proofs_generated, return
GenerateBatchProofFinish(e) ==
    /\ pv[e].pc = "gb_tree"
    /\ \E now \in NowValues :
          pv' = [pv EXCEPT ![e].pc = "done",
                           ![e].ret = Returned(NewBatchProof(StoreDid, pv[e].actions,
                                                            pv[e].individual_proofs, now))]
    /\ stats' = [stats EXCEPT !.batch_proofs_generated = @ + 1]
    /\ UNCHANGED <<storeVars, restVars, idVars, merkleVars, proving_key_loaded, proof_cache>>

\* the call hands its outcome to a caller outside the agent
EngineReturn(e) ==
    /\ pv[e].pc \in {"done", "raised"}
    /\ pv[e].caller = None
    /\ pv' = [pv EXCEPT ![e] = EngineIdleFrame]
    /\ UNCHANGED <<storeVars, restVars, idVars, merkleVars, proving_key_loaded, stats, proof_cache>>

(***************************************************************************)
(* RoboIDAgent (agent.py): the paths that prove stored actions. The agent  *)
(* runs the logger's calls to their end; a call of the agent and the       *)
(* background thread of _verify_action_async each use one engine frame.    *)
(***************************************************************************)
\* generate_and_submit(action) at time `now` on an engine with statistics st
\* and cache `cache`: the outcome and the statistics and the cache it leaves
GenerateAndSubmit(st, cache, action, now) ==
    LET proof == RunProver(action, CircuitType.STANDARD, now)
        after == StatsAndCache(st, cache, action.id, proof.value)
    IN IF proof.exc # None THEN [ret |-> proof, stats |-> st, cache |-> cache]
       ELSE [ret |-> Returned([proof |-> proof.value,
                               tx_hash |-> <<"tx", proof.value.proof_id, action.id, now>>]),
             stats |-> [after.stats EXCEPT !.proofs_submitted = @ + 1],
             cache |-> after.cache]

\* log_action(action_type, payload) and the first line of verify_work: the
\* geofence check (there are no geofences; a 'gps' entry that is no dict has
\* no get()), the logger's append, and with auto-verify on the background
\* thread of _verify_action_async, here frame bg
AgentLogAction(e, bg, J) ==
    /\ pv[e].pc = "idle"
    /\ Len(actions) < MaxRows
    /\ stats.proofs_generated + stats.batch_proofs_generated <= MaxProofs
    /\ \E op \in J.ops, action_type \in J.kinds, payload \in J.payloads, auto_verify \in J.autos,
          now \in NowValues, entropy \in EntropyUsed(<<>>) :
          LET action == NewRecord(action_type, payload, now, entropy, EmptyDict, now)
              frame == [EngineIdleFrame EXCEPT !.op = op, !.caller = op, !.actions = <<action>>]
              gps == DictGet(payload, FieldName.gps, EmptyDict)
              spawned == IF auto_verify
                         THEN [frame EXCEPT !.pc = "ag_prove", !.caller = "_verify_action_async",
                                            !.left = <<action>>]
                         ELSE pv[bg]
          IN /\ auto_verify => pv[bg].pc = "idle"
             /\ IF gps # EmptyDict /\ gps.type # "dict"
                THEN /\ pv' = [pv EXCEPT ![e] = [frame EXCEPT !.pc = "raised",
                                                             !.ret = Raised(AttributeError)]]
                     /\ UNCHANGED actions
                ELSE IF ~PrimaryKeyFree(actions, action.id)
                THEN /\ pv' = [pv EXCEPT ![e] = [frame EXCEPT !.pc = "raised",
                                                             !.ret = Raised(IntegrityError)]]
                     /\ UNCHANGED actions
                ELSE /\ actions' = Append(actions, RowOf(action))
                     /\ pv' = [pv EXCEPT ![bg] = spawned,
                                         ![e] = IF op = "verify_work"
                                                THEN [frame EXCEPT !.pc = "ag_prove",
                                                                   !.left = <<action>>]
                                                ELSE [frame EXCEPT !.pc = "done",
                                                                   !.ret = Returned(action)]]
    /\ UNCHANGED <<action_tags, wtx, lock, th, restVars, idVars, merkleVars, proving_key_loaded, stats,
                   proof_cache>>

\* process_pending(batch_size): get_pending_actions, whose exception
\* propagates; with nothing pending the call returns [], else the loop starts
ProcessPending(e, J) ==
    /\ pv[e].pc = "idle"
    /\ \E batch_size \in J.limits :
          \E rows \in SqlSelect(actions, SqlWhere(actions, "proof_status", PENDING),
                                TRUE, batch_size) :
             LET pending == RowsToRecords(rows)
                 frame == [EngineIdleFrame EXCEPT !.op = "process_pending",
                                                  !.caller = "process_pending"]
             IN pv' = [pv EXCEPT ![e] =
                          IF pending.exc # None THEN [frame EXCEPT !.pc = "raised", !.ret = pending]
                          ELSE IF pending.value = <<>>
                          THEN [frame EXCEPT !.pc = "done", !.ret = Returned(<<>>)]
                          ELSE [frame EXCEPT !.pc = "ag_prove", !.actions = pending.value,
                                             !.left = pending.value]]
    /\ UNCHANGED <<storeVars, restVars, idVars, merkleVars, proving_key_loaded, stats, proof_cache>>

\* prover.generate_and_submit(action) for the action the frame is at
AgentProve(e) ==
    /\ pv[e].pc = "ag_prove"
    /\ \E now \in NowValues :
          LET out == GenerateAndSubmit(stats, proof_cache, Head(pv[e].left), now) IN
          /\ pv' = [pv EXCEPT ![e].pc = IF out.ret.exc = None THEN "done" ELSE "raised",
                              ![e].ret = out.ret]
          /\ stats' = out.stats
          /\ proof_cache' = out.cache
    /\ proving_key_loaded' = TRUE
    /\ UNCHANGED <<storeVars, restVars, idVars, merkleVars>>

\* what follows the proving in each caller. verify_work and verify_batch
\* write VERIFIED after a proof and let an exception propagate; the loop of
\* process_pending and the thread of _verify_action_async write VERIFIED in
\* their try block and FAILED in their except block; log_action and a
\* process_pending that fetched nothing just return. The update_proof_status
\* calls of verify_batch, one per action with the same arguments, are the one
\* UPDATE of the rows with these ids. After the VERIFIED of one action the
\* three single-action callers go on to reputation.apply_proof_verified
AgentFinish(e) ==
    /\ pv[e].pc \in {"done", "raised"}
    /\ pv[e].caller # None
    /\ LET f == pv[e]
           ok == f.pc = "done"
           handled == f.caller \in {"process_pending", "_verify_action_async"} /\ f.left # <<>>
           one == f.caller \in {"verify_work", "process_pending", "_verify_action_async"}
                     /\ f.left # <<>>
           batch_ids == {f.actions[i].id : i \in 1..Len(f.actions)}
       IN /\ actions' =
                IF one /\ ok
                THEN SqlUpdateStatus(actions, Head(f.left).id, VERIFIED, f.ret.value.tx_hash,
                                     f.ret.value.proof.proof_id)
                ELSE IF handled
                THEN SqlUpdateStatus(actions, Head(f.left).id, FAILED, None, None)
                ELSE IF f.caller = "verify_batch" /\ ok
                THEN [i \in 1..Len(actions) |->
                         IF actions[i].id \in batch_ids
                         THEN [actions[i] EXCEPT
                                  !.proof_status = VERIFIED,
                                  !.tx_hash = <<"tx", "batch:", f.ret.value.merkle_root>>,
                                  !.proof_id = f.ret.value.aggregated_proof.proof_id]
                         ELSE actions[i]]
                ELSE actions
          /\ pv' = [pv EXCEPT ![e] =
                       IF one /\ ok THEN [f EXCEPT !.pc = "ag_event"]
                       ELSE IF f.caller = "process_pending" /\ f.left # <<>> /\ Tail(f.left) # <<>>
                       THEN [f EXCEPT !.pc = "ag_prove", !.left = Tail(@)]
                       ELSE EngineIdleFrame]
    /\ UNCHANGED <<action_tags, wtx, lock, th, restVars, idVars, merkleVars, proving_key_loaded, stats,
                   proof_cache>>

(***************************************************************************)
(* ReputationManager (core/reputation.py). Scores and deltas are counted   *)
(* in hundredths of a point, multipliers in tenths, time in seconds.       *)
(***************************************************************************)
INITIAL_REPUTATION == 10000
MIN_REPUTATION == 0
MAX_REPUTATION == 100000

\* ReputationEvent: score_delta of the kinds the model uses
ReputationEvent == [TASK_COMPLETED |-> 200, PROOF_VERIFIED |-> 100, TAMPER_DETECTED |-> -5000]

Max2(a, b) == IF a >= b THEN a ELSE b
Min2(a, b) == IF a <= b THEN a ELSE b

\* the clock moves in steps of half an hour
HalfHour == 1800
Hour == 3600
Day == 86400

\* what is left of ten thousand parts after half an hour of decay:
\* (1 - REPUTATION_DECAY_RATE) ^ 0.5 = 0.99950
KeptPerHalfHour == 9995

\* what is left of ten thousand parts after a day of decay:
\* (1 - REPUTATION_DECAY_RATE) ^ 24 = 0.97627
KeptPerDay == 9763

\* score * math.pow(1 - REPUTATION_DECAY_RATE, elapsed / 3600), the product
\* rounded down to a hundredth at each day and each half hour
RECURSIVE Decay(_, _)
Decay(score, elapsed) ==
    IF elapsed >= Day THEN Decay((score * KeptPerDay) \div 10000, elapsed - Day)
    ELSE IF elapsed >= HalfHour THEN Decay((score * KeptPerHalfHour) \div 10000, elapsed - HalfHour)
    ELSE score

\* datetime.now(timezone.utc).strftime("%Y-%m-%d"), as the number of the day
Today(now) == now \div Day

\* _get_streak_multiplier
GetStreakMultiplier(current_streak) ==
    IF current_streak < 3 THEN 10
    ELSE IF current_streak < 7 THEN 11
    ELSE IF current_streak < 14 THEN 12
    ELSE IF current_streak < 30 THEN 13
    ELSE 15

\* a delta that the streak multiplies whatever its sign
FinalDeltaAlwaysStreak(base_delta, multiplier, streak_multiplier) ==
    (base_delta * multiplier * streak_multiplier) \div 100

\* final_delta of record_event
FinalDelta(base_delta, multiplier, streak_multiplier) ==
    IF base_delta > 0 THEN (base_delta * multiplier * streak_multiplier) \div 100
    ELSE (base_delta * multiplier) \div 10

\* a score that is not clamped
ClampNothing(score) == score

\* max(MIN_REPUTATION, min(MAX_REPUTATION, score))
Clamp(score) == Max2(MIN_REPUTATION, Min2(MAX_REPUTATION, score))

\* StreakData()
NoStreak == [current_streak |-> 0, longest_streak |-> 0, last_activity_date |-> <<>>,
             streak_start_date |-> <<>>, total_active_days |-> 0]

\* a streak that a skipped day does not reset
UpdateStreakNoReset(streak, today) ==
    IF streak.last_activity_date = <<>>
    THEN [current_streak |-> 1, longest_streak |-> 1, last_activity_date |-> <<today>>,
          streak_start_date |-> <<today>>, total_active_days |-> 1]
    ELSE IF streak.last_activity_date = <<today>> THEN streak
    ELSE [streak EXCEPT !.current_streak = @ + 1,
                        !.longest_streak = Max2(@, streak.current_streak + 1),
                        !.total_active_days = @ + 1,
                        !.last_activity_date = <<today>>]

\* _update_streak, today being the day of the clock
UpdateStreak(streak, today) ==
    IF streak.last_activity_date = <<>>
    THEN [current_streak |-> 1, longest_streak |-> 1, last_activity_date |-> <<today>>,
          streak_start_date |-> <<today>>, total_active_days |-> 1]
    ELSE IF streak.last_activity_date = <<today>> THEN streak
    ELSE IF today - streak.last_activity_date[1] = 1
    THEN [streak EXCEPT !.current_streak = @ + 1,
                        !.longest_streak = Max2(@, streak.current_streak + 1),
                        !.total_active_days = @ + 1,
                        !.last_activity_date = <<today>>]
    ELSE [streak EXCEPT !.current_streak = 1,
                        !.streak_start_date = <<today>>,
                        !.total_active_days = @ + 1,
                        !.last_activity_date = <<today>>]

\* ReputationManager(robot_did, initial_score) at time `now`
NewLedger(initial_score, now) ==
    [score |-> initial_score, history |-> <<>>, streak |-> NoStreak, last_decay_check |-> now,
     positive_events |-> 0, negative_events |-> 0, total_earned |-> 0, total_lost |-> 0]

LedgerIdleFrame == [pc |-> "idle", op |-> None, event_type |-> None, multiplier |-> 0,
                    now |-> 0, elapsed |-> 0, pass |-> 0,
                    streak_multiplier |-> 0, final_delta |-> 0, old_score |-> 0,
                    ret |-> Returned(None)]

\* a ledger constructed at time 0 with the default score, nobody calling
LedgerIdle ==
    /\ rep = NewLedger(INITIAL_REPUTATION, 0)
    /\ rep_lock = None
    /\ clock = 0
    /\ rt = [t \in Threads |-> LedgerIdleFrame]
    /\ decayed = 0

\* the clock shows at most MaxHalfHours half hours past midnight
MaxHalfHours == 2

\* the clock does not pass day MaxDays
MaxDays == 1

\* records the history may hold
MaxHistory == 2

\* time passes
Tick(J) ==
    /\ \E d \in J.ticks :
          /\ (clock + d) % Day <= MaxHalfHours * HalfHour
          /\ Today(clock + d) <= MaxDays
          /\ clock' = clock + d
    /\ UNCHANGED <<notLedger, rep, rep_lock, rt, decayed>>

\* record_event(event_type, reason, multiplier): `with self._lock`
RecordEventCall(t, J) ==
    /\ rt[t].pc = "idle"
    /\ rep_lock = None
    /\ Len(rep.history) < MaxHistory
    /\ \E event_type \in J.events, multiplier \in J.multipliers :
          rt' = [rt EXCEPT ![t] = [LedgerIdleFrame EXCEPT !.pc = "decay_check",
                                                          !.op = "record_event",
                                                          !.event_type = event_type,
                                                          !.multiplier = multiplier]]
    /\ rep_lock' = t
    /\ UNCHANGED <<notLedger, rep, clock, decayed>>

\* the score and grade properties and get_statistics: no lock is taken
ReadCall(t, J) ==
    /\ rt[t].pc = "idle"
    /\ \E op \in J.reads :
          rt' = [rt EXCEPT ![t] = [LedgerIdleFrame EXCEPT !.pc = "decay_check", !.op = op]]
    /\ UNCHANGED <<notLedger, rep, rep_lock, clock, decayed>>

\* where a call goes on after _apply_decay: record_event to its delta, a
\* read to its return; get_statistics reads the score and then the grade,
\* which applies the decay once more
AfterDecay(f) ==
    IF f.op = "record_event" THEN [f EXCEPT !.pc = "re_apply"]
    ELSE IF f.op = "get_statistics" /\ f.pass = 0
    THEN [f EXCEPT !.pc = "decay_check", !.pass = 1, !.ret = Returned(rep.score)]
    ELSE IF f.op = "get_statistics" THEN [f EXCEPT !.pc = "done"]
    ELSE [f EXCEPT !.pc = "done", !.ret = Returned(rep.score)]

\* a decay that is due whatever the time since the checkpoint
DecayDueAlways(elapsed) == TRUE

\* if hours_elapsed >= 1
DecayDue(elapsed) == elapsed >= Hour

\* _apply_decay: now = int(time.time()); the hours since the checkpoint;
\* if hours_elapsed >= 1
ApplyDecayCheck(t) ==
    /\ rt[t].pc = "decay_check"
    /\ LET f == [rt[t] EXCEPT !.now = clock, !.elapsed = clock - rep.last_decay_check] IN
       rt' = [rt EXCEPT ![t] = IF DecayDue(f.elapsed) THEN [f EXCEPT !.pc = "decay_score"]
                               ELSE AfterDecay(f)]
    /\ UNCHANGED <<notLedger, rep, rep_lock, clock, decayed>>

\* self._score = max(MIN_REPUTATION, self._score * decay_factor)
ApplyDecayScore(t) ==
    /\ rt[t].pc = "decay_score"
    /\ rep' = [rep EXCEPT !.score = Max2(MIN_REPUTATION, Decay(@, rt[t].elapsed))]
    /\ decayed' = decayed + rt[t].elapsed
    /\ rt' = [rt EXCEPT ![t].pc = "decay_mark"]
    /\ UNCHANGED <<notLedger, rep_lock, clock>>

\* self._last_decay_check = now
ApplyDecayMark(t) ==
    /\ rt[t].pc = "decay_mark"
    /\ rep' = [rep EXCEPT !.last_decay_check = rt[t].now]
    /\ rt' = [rt EXCEPT ![t] = AfterDecay(rt[t])]
    /\ UNCHANGED <<notLedger, rep_lock, clock, decayed>>

\* a recorded delta that is the delta before clamping
ActualDeltaUnclamped(score, old_score, final_delta) == final_delta

\* actual_delta = self._score - old_score
ActualDelta(score, old_score, final_delta) == score - old_score

\* record_event after the decay: the delta, the clamped score, the counters,
\* the streak, the appended record (of its id the position in the history is
\* kept, the time of the record is left out); the lock is released on the way
\* out
RecordEventApply(t) ==
    /\ rt[t].pc = "re_apply"
    /\ LET streak_multiplier == GetStreakMultiplier(rep.streak.current_streak)
           final_delta == FinalDelta(ReputationEvent[rt[t].event_type], rt[t].multiplier,
                                     streak_multiplier)
           old_score == rep.score
           score == Clamp(old_score + final_delta)
           actual_delta == ActualDelta(score, old_score, final_delta)
           record == [event_id |-> Len(rep.history),
                      event_type |-> rt[t].event_type,
                      score_delta |-> actual_delta]
       IN /\ rep' = [rep EXCEPT
                        !.score = score,
                        !.positive_events = IF actual_delta > 0 THEN @ + 1 ELSE @,
                        !.total_earned = IF actual_delta > 0 THEN @ + actual_delta ELSE @,
                        !.negative_events = IF actual_delta < 0 THEN @ + 1 ELSE @,
                        !.total_lost = IF actual_delta < 0 THEN @ - actual_delta ELSE @,
                        !.streak = UpdateStreak(@, Today(clock)),
                        !.history = Append(@, record)]
          /\ rt' = [rt EXCEPT ![t].pc = "done", ![t].streak_multiplier = streak_multiplier,
                              ![t].final_delta = final_delta, ![t].old_score = old_score,
                              ![t].ret = Returned(record)]
    /\ rep_lock' = None
    /\ UNCHANGED <<notLedger, clock, decayed>>

\* reset(new_score), under the lock: a fresh state with its checkpoint at now
Reset(t, J) ==
    /\ rt[t].pc = "idle"
    /\ rep_lock = None
    /\ \E new_score \in J.scores :
          /\ rep' = NewLedger(new_score, clock)
          /\ rt' = [rt EXCEPT ![t] = [LedgerIdleFrame EXCEPT !.pc = "done", !.op = "reset",
                                                             !.now = clock]]
    /\ decayed' = 0
    /\ UNCHANGED <<notLedger, rep_lock, clock>>

\* the call returns
LedgerReturn(t) ==
    /\ rt[t].pc = "done"
    /\ rt' = [rt EXCEPT ![t] = LedgerIdleFrame]
    /\ UNCHANGED <<notLedger, rep, rep_lock, clock, decayed>>

\* one step of any ledger call by thread t
LedgerStep(t, J) ==
    \/ RecordEventCall(t, J)
    \/ ReadCall(t, J)
    \/ ApplyDecayCheck(t)
    \/ ApplyDecayScore(t)
    \/ ApplyDecayMark(t)
    \/ RecordEventApply(t)
    \/ Reset(t, J)
    \/ LedgerReturn(t)

\* record_event(event_type, multiplier=1.0) on ledger state `ledger` at time
\* now, from `with self._lock` to the return: the decay that is due, the
\* delta, the clamped score, the counters, the streak, the appended record
EventRecorded(ledger, event_type, now) ==
    LET elapsed == now - ledger.last_decay_check
        aged == IF DecayDue(elapsed)
                THEN [ledger EXCEPT !.score = Max2(MIN_REPUTATION, Decay(@, elapsed)),
                                    !.last_decay_check = now]
                ELSE ledger
        final_delta == FinalDelta(ReputationEvent[event_type], 1,
                                  GetStreakMultiplier(aged.streak.current_streak))
        score == Clamp(aged.score + final_delta)
        actual_delta == ActualDelta(score, aged.score, final_delta)
    IN [aged EXCEPT
           !.score = score,
           !.positive_events = IF actual_delta > 0 THEN @ + 1 ELSE @,
           !.total_earned = IF actual_delta > 0 THEN @ + actual_delta ELSE @,
           !.negative_events = IF actual_delta < 0 THEN @ + 1 ELSE @,
           !.total_lost = IF actual_delta < 0 THEN @ - actual_delta ELSE @,
           !.streak = UpdateStreak(@, Today(now)),
           !.history = Append(@, [event_id |-> Len(aged.history), event_type |-> event_type,
                                  score_delta |-> actual_delta])]

\* self.reputation.apply_proof_verified(tx_hash) of verify_work, of the loop
\* of process_pending and of the thread of _verify_action_async, after their
\* update_proof_status(VERIFIED): one record_event(PROOF_VERIFIED); the loop
\* then goes on to its next action, the other callers return
AgentApplyProofVerified(e) ==
    /\ pv[e].pc = "ag_event"
    /\ rep_lock = None
    /\ rep' = EventRecorded(rep, "PROOF_VERIFIED", clock)
    /\ decayed' = IF DecayDue(clock - rep.last_decay_check)
                  THEN decayed + (clock - rep.last_decay_check) ELSE decayed
    /\ pv' = [pv EXCEPT ![e] =
                 IF pv[e].caller = "process_pending" /\ Tail(pv[e].left) # <<>>
                 THEN [pv[e] EXCEPT !.pc = "ag_prove", !.left = Tail(@)]
                 ELSE EngineIdleFrame]
    /\ UNCHANGED <<storeVars, idVars, merkleVars, proving_key_loaded, stats, proof_cache,
                   rep_lock, clock, rt, lateVars>>

\* submit_proof(proof, action), for an action that is stored: `with
\* self._lock`
SubmitProofLock(t) ==
    /\ engine_lock = None
    /\ stats.proofs_submitted < Len(actions)
    /\ engine_lock' = t
    /\ UNCHANGED <<storeVars, idVars, merkleVars, engineVars, ledgerVars, pool, bootVars, tailVars>>

\* self._stats['proofs_submitted'] += 1, and the lock is released
SubmitProofCount(t) ==
    /\ engine_lock = t
    /\ stats' = [stats EXCEPT !.proofs_submitted = @ + 1]
    /\ engine_lock' = None
    /\ UNCHANGED <<storeVars, idVars, merkleVars, proving_key_loaded, proof_cache, pv, ledgerVars, pool, bootVars, tailVars>>

(***************************************************************************)
(* The worker pool of the engine (ThreadPoolExecutor) and shutdown.        *)
(***************************************************************************)
\* ThreadPoolExecutor(max_workers=max_workers)
MAX_WORKERS == 4

\* tasks that are submitted
MaxTasks == 2

\* the tasks in a state
TasksIn(state) == {i \in 1..Len(pool.tasks) : pool.tasks[i].state = state}

\* generate_proof_async(action): self._executor.submit(self.generate_proof,
\* action, circuit_type); an executor that was shut down takes no task. A
\* task whose `waits` is set reads a payload that never answers
GenerateProofAsync(J) ==
    /\ pool.shutdown = "no"
    /\ Len(pool.tasks) < MaxTasks
    /\ \E action \in J.records, waits \in J.waits :
          pool' = [pool EXCEPT !.tasks = Append(@, [action |-> action, state |-> "queued",
                                                    waits |-> waits, ret |-> <<>>])]
    /\ UNCHANGED <<storeVars, idVars, merkleVars, engineVars, ledgerVars, engine_lock, bootVars, tailVars>>

\* a worker thread takes the next task of the queue
WorkerStart ==
    /\ TasksIn("queued") # {}
    /\ Cardinality(TasksIn("running")) < MAX_WORKERS
    /\ LET i == CHOOSE k \in TasksIn("queued") : \A m \in TasksIn("queued") : k <= m
       IN pool' = [pool EXCEPT !.tasks[i].state = "running"]
    /\ UNCHANGED <<storeVars, idVars, merkleVars, engineVars, ledgerVars, engine_lock, bootVars, tailVars>>

\* a running task comes to the end of generate_proof: the proof counted and
\* cached, or the exception kept in the future (of the future's result the
\* model keeps whether it is an exception)
WorkerFinish ==
    \E i \in TasksIn("running"), now \in NowValues :
        LET task == pool.tasks[i]
            proof == RunProver(task.action, CircuitType.STANDARD, now)
            after == StatsAndCache(stats, proof_cache, task.action.id, proof.value)
        IN /\ ~task.waits
           /\ engine_lock = None
           /\ pool' = [pool EXCEPT !.tasks[i].state = "done", !.tasks[i].ret = <<proof.exc>>]
           /\ stats' = IF proof.exc = None THEN after.stats ELSE stats
           /\ proof_cache' = IF proof.exc = None THEN after.cache ELSE proof_cache
           /\ proving_key_loaded' = TRUE
           /\ UNCHANGED <<storeVars, idVars, merkleVars, pv, ledgerVars, engine_lock, bootVars, tailVars>>

\* self._executor.shutdown(wait=True) has joined the workers: every task
\* submitted has run to its end
Joined(tasks) == \A i \in 1..Len(tasks) : tasks[i].state = "done"

\* RoboIDAgent.shutdown calls self.prover.shutdown(), which calls
\* self._executor.shutdown(wait=True)
ShutdownCall ==
    /\ pool.shutdown = "no"
    /\ pool' = [pool EXCEPT !.shutdown = "waiting"]
    /\ UNCHANGED <<storeVars, idVars, merkleVars, engineVars, ledgerVars, engine_lock, bootVars, tailVars>>

\* the workers are joined; self.logger.close() takes the store's lock,
\* clears the buffer and releases it; shutdown returns
ShutdownReturn ==
    /\ pool.shutdown = "waiting"
    /\ Joined(pool.tasks)
    /\ lock = None
    /\ pool' = [pool EXCEPT !.shutdown = "returned"]
    /\ UNCHANGED <<storeVars, idVars, merkleVars, engineVars, ledgerVars, engine_lock, bootVars, tailVars>>

(***************************************************************************)
(* The statistics counters of the engine, one statement at a time: the     *)
(* prover runs outside the lock, then `with self._lock:` reads a counter   *)
(* of self._stats and writes it back one higher.                           *)
(***************************************************************************)
\* per engine thread: no call; generated, batches and submitted count the
\* executions of this thread that have completed
NotCounting == [pc |-> "idle", op |-> None, left |-> <<>>, proof |-> <<>>, counter |-> None,
                loaded |-> 0, generated |-> 0, batches |-> 0, submitted |-> 0]

CompletedBy(field) ==
    LET e1 == counting["e1"][field]
        e2 == counting["e2"][field]
    IN e1 + e2

\* calls start while fewer than MaxCounted executions have completed
MaxCounted == 3

\* generate_proof(action), directly or as the task of a pool worker,
\* generate_batch_proof(actions) or submit_proof(proof, action) starts: the
\* proving key is loaded; an empty batch and submit_proof go straight to
\* their counter
CountedCall(e, J) ==
    /\ counting[e].pc = "idle"
    /\ CompletedBy("generated") + CompletedBy("batches") + CompletedBy("submitted") < MaxCounted
    /\ \E op \in J.ops :
          \E left \in (IF op = "generate_batch_proof" THEN J.lists
                       ELSE IF op = "submit_proof" THEN {<<>>}
                       ELSE {<<r>> : r \in J.records}) :
             /\ counting' = [counting EXCEPT ![e].op = op, ![e].left = left,
                                ![e].pc = IF left = <<>> THEN "lock" ELSE "prove",
                                ![e].counter = IF op = "submit_proof" THEN "proofs_submitted"
                                               ELSE "batch_proofs_generated"]
             /\ proving_key_loaded' = IF op = "submit_proof" THEN proving_key_loaded ELSE TRUE
    /\ UNCHANGED <<storeVars, idVars, merkleVars, stats, proof_cache, pv, ledgerVars,
                   engine_lock, pool, bootVars>>

\* _prepare_inputs, _compute_witness, _run_prover for the next action: the
\* proof, or the exception, which ends the call
CountedProve(e) ==
    /\ counting[e].pc = "prove"
    /\ \E now \in NowValues :
          LET proof == RunProver(Head(counting[e].left),
                                 IF counting[e].op = "generate_batch_proof"
                                 THEN CircuitType.BATCH ELSE CircuitType.STANDARD, now)
          IN counting' = [counting EXCEPT
                             ![e].pc = IF proof.exc = None THEN "lock" ELSE "raised",
                             ![e].proof = IF proof.exc = None THEN <<proof.value>> ELSE <<>>,
                             ![e].counter = "proofs_generated"]
    /\ UNCHANGED <<storeVars, idVars, merkleVars, engineVars, ledgerVars, engine_lock, pool,
                   bootVars>>

\* a lock that lets every thread in
AcquirableAlways(owner) == TRUE

\* threading.Lock: acquired when nobody holds it
Acquirable(owner) == owner = None

\* with self._lock:
CountedAcquire(e) ==
    /\ counting[e].pc = "lock"
    /\ Acquirable(engine_lock)
    /\ engine_lock' = e
    /\ counting' = [counting EXCEPT ![e].pc = "load"]
    /\ UNCHANGED <<storeVars, idVars, merkleVars, engineVars, ledgerVars, pool, bootVars>>

\* self._stats[counter] += 1, first half: the value is read
CountedLoad(e) ==
    /\ counting[e].pc = "load"
    /\ counting' = [counting EXCEPT ![e].pc = "store", ![e].loaded = stats[counting[e].counter]]
    /\ UNCHANGED <<storeVars, idVars, merkleVars, engineVars, ledgerVars, engine_lock, pool,
                   bootVars>>

\* second half: the value plus one is written; generate_proof also adds the
\* proving time and caches the proof.  The lock is released and the
\* execution is complete: generate_proof inside a batch goes on with the
\* next action or, after the last one, with batch_proofs_generated
CountedStore(e) ==
    /\ counting[e].pc = "store"
    /\ LET f == counting[e]
           proof == f.counter = "proofs_generated"
           after == IF proof
                    THEN StatsAndCache(stats, proof_cache, Head(f.left).id, f.proof[1])
                    ELSE [stats |-> stats, cache |-> proof_cache]
           more == proof /\ f.op = "generate_batch_proof"
       IN /\ stats' = [after.stats EXCEPT ![f.counter] = f.loaded + 1]
          /\ proof_cache' = after.cache
          /\ counting' = [counting EXCEPT ![e] =
                [f EXCEPT !.generated = IF proof THEN @ + 1 ELSE @,
                          !.batches = IF f.counter = "batch_proofs_generated" THEN @ + 1 ELSE @,
                          !.submitted = IF f.counter = "proofs_submitted" THEN @ + 1 ELSE @,
                          !.pc = IF ~more THEN "idle"
                                 ELSE IF Tail(f.left) = <<>> THEN "lock" ELSE "prove",
                          !.counter = IF more THEN "batch_proofs_generated" ELSE None,
                          !.op = IF more THEN @ ELSE None,
                          !.left = IF more THEN Tail(@) ELSE <<>>,
                          !.proof = <<>>,
                          !.loaded = 0]]
    /\ engine_lock' = None
    /\ UNCHANGED <<storeVars, idVars, merkleVars, proving_key_loaded, pv, ledgerVars, pool,
                   bootVars>>

\* the exception of the prover reaches the caller: nothing was counted
CountedRaise(e) ==
    /\ counting[e].pc = "raised"
    /\ counting' = [counting EXCEPT ![e].pc = "idle", ![e].op = None, ![e].left = <<>>,
                                    ![e].counter = None]
    /\ UNCHANGED <<storeVars, idVars, merkleVars, engineVars, ledgerVars, engine_lock, pool,
                   bootVars>>

(***************************************************************************)
(* Opening the database: ActionLogger.__init__ runs _init_database, which  *)
(* reads the schema version and migrates (storage/logger.py).  Every DDL   *)
(* statement commits by itself; no lock is held across the statements.     *)
(***************************************************************************)
SCHEMA_VERSION == 3

\* the store instances constructed on one database file
Instances == {"A", "B"}

\* the columns of table actions as version 1 creates it
V1Columns ==
    <<"id", "robot_did", "action_type", "payload", "timestamp", "signature",
      "proof_status", "tx_hash", "created_at">>

\* the statements of _migrate_schema in order (the indexes left out), each
\* with the version below which it runs; the last one runs in every migration
MigrationSteps ==
    << [below |-> 1, stmt |-> "CREATE TABLE actions", column |-> None, default |-> None],
       [below |-> 2, stmt |-> "ADD COLUMN", column |-> "proof_id", default |-> None],
       [below |-> 2, stmt |-> "ADD COLUMN", column |-> "batch_id", default |-> None],
       [below |-> 3, stmt |-> "ADD COLUMN", column |-> "metadata", default |-> "{}"],
       [below |-> 3, stmt |-> "CREATE TABLE action_tags", column |-> None, default |-> None],
       [below |-> SCHEMA_VERSION, stmt |-> "INSERT OR REPLACE schema_version",
        column |-> None, default |-> None] >>

\* what a statement does to the database: CREATE TABLE IF NOT EXISTS keeps an
\* existing table, ALTER TABLE ADD COLUMN appends the column and gives every
\* row its default, or raises OperationalError (swallowed by the caller)
\* when the column or no table is there, INSERT OR REPLACE adds the row 3
Execute(db, step) ==
    CASE step.stmt = "CREATE TABLE actions" ->
           IF db.columns = <<>> THEN [db EXCEPT !.columns = V1Columns] ELSE db
      [] step.stmt = "ADD COLUMN" ->
           IF db.columns = <<>> \/ \E i \in DOMAIN db.columns : db.columns[i] = step.column
           THEN db
           ELSE [db EXCEPT !.columns = Append(@, step.column),
                           !.rows = [i \in DOMAIN @ |-> @[i] @@ (step.column :> step.default)]]
      [] step.stmt = "CREATE TABLE action_tags" -> [db EXCEPT !.action_tags = TRUE]
      [] step.stmt = "INSERT OR REPLACE schema_version" ->
           [db EXCEPT !.versions = @ \cup {SCHEMA_VERSION}]

\* SELECT MAX(version) FROM schema_version, or 0
CurrentVersion(db) ==
    IF db.versions = {} THEN 0 ELSE CHOOSE v \in db.versions : \A w \in db.versions : w <= v

RECURSIVE Migrated(_, _, _)
Migrated(db, version, k) ==
    IF k > Len(MigrationSteps) THEN db
    ELSE Migrated(IF MigrationSteps[k].below <= version /\ k < Len(MigrationSteps)
                  THEN Execute(db, MigrationSteps[k]) ELSE db, version, k + 1)

\* a database file as the program of schema version `version' left it, with
\* `n' rows stored at that version; version 0 is a file that does not exist
\* yet.  `before' keeps what the file held before any instance opened it
Database(version, n) ==
    LET tables == Migrated([versions |-> {}, columns |-> <<>>, rows |-> <<>>,
                            action_tags |-> FALSE], version, 1)
        rows == [i \in 1..(IF version = 0 THEN 0 ELSE n) |->
                    [c \in {tables.columns[j] : j \in DOMAIN tables.columns} |-> <<c, i>>]]
    IN [versions |-> IF version = 0 THEN {} ELSE {version},
        columns |-> tables.columns,
        rows |-> rows,
        action_tags |-> tables.action_tags,
        before |-> [version |-> version, columns |-> tables.columns, rows |-> rows]]

NotOpened == [pc |-> "new", from_version |-> 0, step |-> 1, ran |-> <<>>]

\* _init_database: CREATE TABLE IF NOT EXISTS schema_version, then the
\* version is read; below SCHEMA_VERSION the instance goes on to migrate
InitDatabase(b) ==
    /\ boot[b].pc = "new"
    /\ LET current_version == CurrentVersion(schema)
       IN boot' = [boot EXCEPT ![b] = [NotOpened EXCEPT
                      !.pc = IF current_version < SCHEMA_VERSION THEN "migrate" ELSE "ready",
                      !.from_version = current_version]]
    /\ UNCHANGED <<storeVars, idVars, merkleVars, engineVars, ledgerVars, engine_lock, pool, schema, tailVars>>

\* the next statement of _migrate_schema, run if from_version is below its
\* version; `ran' lists the statements this instance executed.  After the
\* last one the connection commits and the constructor returns
MigrateSchema(b) ==
    /\ boot[b].pc = "migrate"
    /\ LET k == boot[b].step
           runs == boot[b].from_version < MigrationSteps[k].below
       IN /\ schema' = IF runs THEN Execute(schema, MigrationSteps[k]) ELSE schema
          /\ boot' = [boot EXCEPT ![b].step = k + 1,
                                  ![b].ran = IF runs THEN Append(@, k) ELSE @,
                                  ![b].pc = IF k = Len(MigrationSteps) THEN "ready" ELSE "migrate"]
    /\ UNCHANGED <<storeVars, idVars, merkleVars, engineVars, ledgerVars, engine_lock, pool, tailVars>>

\* the store the other components work on has been opened: its file is at
\* SCHEMA_VERSION and no constructor is running
Opened ==
    /\ schema = Database(SCHEMA_VERSION, 0)
    /\ boot = [b \in Instances |-> [NotOpened EXCEPT !.pc = "ready", !.from_version = SCHEMA_VERSION]]

PoolInit ==
    /\ engine_lock = None
    /\ pool = [tasks |-> <<>>, shutdown |-> "no"]

\* no thread is updating a counter
TailInit == counting = [e \in EngineThreads |-> NotCounting]

LateInit == PoolInit /\ Opened /\ TailInit

RestInit == LedgerIdle /\ LateInit

(***************************************************************************)
(* Specifications.                                                         *)
(***************************************************************************)
NoCall == [did |-> <<>>, action_type |-> <<>>, timestamp |-> 0, entropy |-> <<>>,
           used |-> <<>>, id |-> <<>>, made |-> TRUE]

\* the store after ActionLogger.__init__ on a new database: schema migrated,
\* both tables empty, the lock free
StoreInit ==
    /\ actions = <<>>
    /\ action_tags = {}
    /\ wtx = NoTx
    /\ lock = None
    /\ th = [t \in Threads |-> IdleFrame]

Init == StoreInit /\ idCallA = NoCall /\ idCallB = NoCall /\ MerkleIdle /\ EngineInit /\ RestInit

\* one step of any store operation by thread t, with its inputs drawn from I
StoreStep(t, I) ==
    \/ LogActionCall(t, I)
    \/ LogActionInsert(t, I)
    \/ LogActionInsertTag(t, I)
    \/ LogActionCommit(t, I)
    \/ LogActionEmit(t)
    \/ UpdateProofStatusCall(t, I)
    \/ UpdateProofStatusExec(t, I)
    \/ UpdateProofStatusCommit(t, I)
    \/ UpdateProofStatusEmit(t)
    \/ SetBatchIdCall(t, I)
    \/ SetBatchIdExec(t, I)
    \/ SetBatchIdCommit(t, I)
    \/ TagCall(t, I)
    \/ TagExec(t, I)
    \/ TagCommit(t, I)
    \/ LogActionsBatchCall(t, I)
    \/ LogActionsBatchInsert(t, I)
    \/ LogActionsBatchCommit(t, I)
    \/ LogActionsBatchReturn(t)
    \/ Vacuum(t, I)
    \/ Close(t)
    \/ GetAction(t)
    \/ GetPendingActions(t, I)
    \/ GetActionsByTag(t, I)
    \/ GetRecentActions(t, I)
    \/ Return(t)

\* an item of a log_actions_batch list; absent holds the keys the dict lacks
\* beside 'timestamp'
BatchItem(ts) == [action_type |-> NAV_START, payload |-> P1, timestamp |-> ts, absent |-> {}]

\* the inputs of the sequential specification: one caller, every operation;
\* update_proof_status is called the way the agent records a verified proof
SeqInputs ==
    [kinds |-> {NAV_START},
     payloads |-> {P1},
     timestamps |-> {<<>>, <<1000>>},
     tagLists |-> {<<>>, <<"a">>, <<"a", "a">>},
     metas |-> {<<>>},
     requests |-> {<<VERIFIED, "tx1", "proof1">>},
     batchIds |-> {"b1"},
     tags |-> {"a"},
     tagGhosts |-> {},
     batches |-> {<<BatchItem(<<1000>>)>>, <<BatchItem(<<>>), BatchItem(<<1000>>)>>},
     limits |-> {1, 10},
     failures |-> {FALSE, TRUE}]

Next == StoreStep("t1", SeqInputs)

Spec == Init /\ [][Next]_vars

\* the inputs of the status specification: appends at one timestamp, and
\* update_proof_status called with every status, with and without references
StatusInputs ==
    [kinds |-> {NAV_START},
     payloads |-> {P1},
     timestamps |-> {<<1000>>},
     tagLists |-> {<<>>},
     metas |-> {<<>>},
     requests |-> {<<s, None, None>> : s \in ProofStatus}
                  \cup {<<s, "tx1", "proof1">> : s \in ProofStatus},
     limits |-> {10},
     failures |-> {FALSE, TRUE}]

NextStatus ==
    \/ LogActionCall("t1", StatusInputs)
    \/ LogActionInsert("t1", StatusInputs)
    \/ LogActionCommit("t1", StatusInputs)
    \/ LogActionEmit("t1")
    \/ UpdateProofStatusCall("t1", StatusInputs)
    \/ UpdateProofStatusExec("t1", StatusInputs)
    \/ UpdateProofStatusCommit("t1", StatusInputs)
    \/ UpdateProofStatusEmit("t1")
    \/ GetAction("t1")
    \/ GetPendingActions("t1", StatusInputs)
    \/ Return("t1")

SpecStatus == Init /\ [][NextStatus]_vars

\* the inputs of the signature specification: payloads with str keys, with
\* one int key and with two int keys, and every operation that writes to a
\* stored record
SignedInputs ==
    [kinds |-> {NAV_START},
     payloads |-> {P1, PIntKey, PTwoIntKeys},
     timestamps |-> {<<1000>>},
     tagLists |-> {<<>>, <<"a">>},
     metas |-> {<<>>},
     requests |-> {<<VERIFIED, "tx1", "proof1">>},
     batchIds |-> {"b1"},
     tags |-> {"a"},
     tagGhosts |-> {},
     failures |-> {FALSE, TRUE}]

NextSigned ==
    \/ LogActionCall("t1", SignedInputs)
    \/ LogActionInsert("t1", SignedInputs)
    \/ LogActionInsertTag("t1", SignedInputs)
    \/ LogActionCommit("t1", SignedInputs)
    \/ LogActionEmit("t1")
    \/ UpdateProofStatusCall("t1", SignedInputs)
    \/ UpdateProofStatusExec("t1", SignedInputs)
    \/ UpdateProofStatusCommit("t1", SignedInputs)
    \/ UpdateProofStatusEmit("t1")
    \/ SetBatchIdCall("t1", SignedInputs)
    \/ SetBatchIdExec("t1", SignedInputs)
    \/ SetBatchIdCommit("t1", SignedInputs)
    \/ TagCall("t1", SignedInputs)
    \/ TagExec("t1", SignedInputs)
    \/ TagCommit("t1", SignedInputs)
    \/ Return("t1")

SpecSigned == Init /\ [][NextSigned]_vars

\* the inputs of the batch specification: lists of none, one and two items,
\* among them an item of an unknown kind and an item without payload, each
\* after an item that can be inserted; statements that fail
BatchInputs ==
    LET good == BatchItem(<<1000>>)
        unknown == [good EXCEPT !.action_type = <<"n", "o">>]
        bare == [good EXCEPT !.absent = {"payload"}]
    IN [batches |-> {<<>>, <<good>>, <<good, BatchItem(<<>>)>>, <<good, good>>,
                     <<good, unknown>>, <<good, bare>>},
        failures |-> {FALSE, TRUE}]

NextBatch ==
    \E t \in Threads :
        \/ LogActionsBatchCall(t, BatchInputs)
        \/ LogActionsBatchInsert(t, BatchInputs)
        \/ LogActionsBatchCommit(t, BatchInputs)
        \/ LogActionsBatchReturn(t)
        \/ Return(t)

SpecBatch == Init /\ [][NextBatch]_vars

InitId == StoreInit /\ idCallA \in IdCalls /\ idCallB \in IdCalls /\ MerkleIdle /\ EngineInit /\ RestInit

NextId == GenerateActionIdA \/ GenerateActionIdB

SpecId == InitId /\ [][NextId]_vars

\* the inputs of the reader/writer specification: every log_action call
\* supplies the two tags of RWTags, readers run beside it
RWTags == <<"a", "b">>

RWInputs ==
    [kinds |-> {NAV_START},
     payloads |-> {P1},
     timestamps |-> {<<1000>>},
     tagLists |-> {RWTags},
     metas |-> {<<>>},
     tags |-> {"a", "b"},
     limits |-> {10},
     failures |-> {FALSE, TRUE}]

NextRW ==
    \E t \in Threads :
        \/ LogActionCall(t, RWInputs)
        \/ LogActionInsert(t, RWInputs)
        \/ LogActionInsertTag(t, RWInputs)
        \/ LogActionCommit(t, RWInputs)
        \/ LogActionEmit(t)
        \/ GetAction(t)
        \/ GetActionsByTag(t, RWInputs)
        \/ GetRecentActions(t, RWInputs)
        \/ Return(t)

SpecRW == Init /\ [][NextRW]_vars

\* the inputs of the concurrent specification: two threads on every write path
ConcInputs ==
    [kinds |-> {NAV_START},
     payloads |-> {P1},
     timestamps |-> {<<1000>>},
     tagLists |-> {<<>>, <<"a">>},
     metas |-> {<<>>},
     requests |-> {<<VERIFIED, "tx1", "proof1">>},
     batchIds |-> {"b1"},
     tags |-> {"a"},
     tagGhosts |-> {},
     batches |-> {<<BatchItem(<<1000>>)>>},
     failures |-> {FALSE}]

NextConc ==
    \E t \in Threads :
        \/ LogActionCall(t, ConcInputs)
        \/ LogActionInsert(t, ConcInputs)
        \/ LogActionInsertTag(t, ConcInputs)
        \/ LogActionCommit(t, ConcInputs)
        \/ LogActionEmit(t)
        \/ UpdateProofStatusCall(t, ConcInputs)
        \/ UpdateProofStatusExec(t, ConcInputs)
        \/ UpdateProofStatusCommit(t, ConcInputs)
        \/ UpdateProofStatusEmit(t)
        \/ SetBatchIdCall(t, ConcInputs)
        \/ SetBatchIdExec(t, ConcInputs)
        \/ SetBatchIdCommit(t, ConcInputs)
        \/ TagCall(t, ConcInputs)
        \/ TagExec(t, ConcInputs)
        \/ TagCommit(t, ConcInputs)
        \/ LogActionsBatchCall(t, ConcInputs)
        \/ LogActionsBatchInsert(t, ConcInputs)
        \/ LogActionsBatchCommit(t, ConcInputs)
        \/ LogActionsBatchReturn(t)
        \/ Return(t)

SpecConc == Init /\ [][NextConc]_vars

\* the inputs of the round-trip specification: one thread keeps the record
\* log_action returned to it while the other updates and reads the store
RoundTripInputs ==
    [kinds |-> {NAV_START},
     payloads |-> {P1, PIntKey},
     timestamps |-> {<<1000>>},
     tagLists |-> {<<>>},
     metas |-> {<<>>, <<P1>>},
     requests |-> {<<VERIFIED, "tx1", "proof1">>},
     failures |-> {FALSE}]

NextRoundTrip ==
    \E t \in Threads :
        \/ LogActionCall(t, RoundTripInputs)
        \/ LogActionInsert(t, RoundTripInputs)
        \/ LogActionCommit(t, RoundTripInputs)
        \/ LogActionEmit(t)
        \/ UpdateProofStatusCall(t, RoundTripInputs)
        \/ UpdateProofStatusExec(t, RoundTripInputs)
        \/ UpdateProofStatusCommit(t, RoundTripInputs)
        \/ UpdateProofStatusEmit(t)
        \/ GetAction(t)
        \/ Return(t)

SpecRoundTrip == Init /\ [][NextRoundTrip]_vars

\* the inputs of the payload specification: appends of a small and of an
\* oversized payload
PayloadInputs ==
    [kinds |-> {NAV_START, NAV_COMPLETE},
     payloads |-> {P1, PBig},
     timestamps |-> {<<>>, <<1000>>},
     tagLists |-> {<<>>, <<"a">>},
     metas |-> {<<>>},
     batches |-> {<<[BatchItem(<<1000>>) EXCEPT !.payload = PBig]>>},
     limits |-> {10},
     failures |-> {FALSE, TRUE}]

NextPayload ==
    \/ LogActionCall("t1", PayloadInputs)
    \/ LogActionInsert("t1", PayloadInputs)
    \/ LogActionInsertTag("t1", PayloadInputs)
    \/ LogActionCommit("t1", PayloadInputs)
    \/ LogActionEmit("t1")
    \/ LogActionsBatchCall("t1", PayloadInputs)
    \/ LogActionsBatchInsert("t1", PayloadInputs)
    \/ LogActionsBatchCommit("t1", PayloadInputs)
    \/ LogActionsBatchReturn("t1")
    \/ GetRecentActions("t1", PayloadInputs)
    \/ Return("t1")

SpecPayload == Init /\ [][NextPayload]_vars

\* one tree over every leaf sequence of up to MaxLeaves leaves, a proof and
\* its verification
InitMerkle ==
    /\ StoreInit /\ idCallA = NoCall /\ idCallB = NoCall /\ EngineInit /\ RestInit
    /\ mtA \in {[leaves |-> ls, layers |-> <<>>, built |-> FALSE] : ls \in LeafSeqs(MaxLeaves)}
    /\ mtB = NoTree
    /\ mkProof = [NoProof EXCEPT !.made = FALSE]
    /\ mkVerify = [NoVerify EXCEPT !.made = FALSE]

NextMerkle == MerkleTreeA \/ MerkleGetProof \/ MerkleVerifyProof

SpecMerkle == InitMerkle /\ [][NextMerkle]_vars

\* the inputs of the iteration specification: thread t1 appends with
\* timestamps equal to or earlier than stored ones while thread t2 iterates
\* in pages of one or two rows
IterateInputs ==
    [kinds |-> {NAV_START},
     payloads |-> {P1},
     timestamps |-> {<<1000>>, <<999>>},
     tagLists |-> {<<>>},
     metas |-> {<<>>},
     batchSizes |-> {1, 2},
     failures |-> {FALSE}]

NextIterate ==
    \/ LogActionCall("t1", IterateInputs)
    \/ LogActionInsert("t1", IterateInputs)
    \/ LogActionCommit("t1", IterateInputs)
    \/ LogActionEmit("t1")
    \/ IterateAllActionsCall("t2", IterateInputs)
    \/ IterateAllActionsPage("t2")
    \/ IterateAllActionsYield("t2")
    \/ \E t \in Threads : Return(t)

SpecIterate == Init /\ [][NextIterate]_vars

\* a tree over every leaf sequence of up to MaxLeaves leaves, the empty one
\* too, and get_proof with any index
InitReference ==
    /\ StoreInit /\ idCallA = NoCall /\ idCallB = NoCall /\ EngineInit /\ RestInit
    /\ mtA \in {[leaves |-> ls, layers |-> <<>>, built |-> FALSE] :
                   ls \in LeafSeqs(MaxLeaves) \cup {<<>>}}
    /\ mtB = NoTree
    /\ mkProof = [NoProof EXCEPT !.made = FALSE]
    /\ mkVerify = NoVerify

NextReference == MerkleTreeA \/ MerkleGetProofAnyIndex

SpecReference == InitReference /\ [][NextReference]_vars

\* two trees over every pair of leaf sequences of up to MaxPairLeaves leaves
InitRoots ==
    /\ StoreInit /\ idCallA = NoCall /\ idCallB = NoCall /\ EngineInit /\ RestInit
    /\ mtA \in {[leaves |-> ls, layers |-> <<>>, built |-> FALSE] : ls \in LeafSeqs(MaxPairLeaves)}
    /\ mtB \in {[leaves |-> ls, layers |-> <<>>, built |-> FALSE] : ls \in LeafSeqs(MaxPairLeaves)}
    /\ mkProof = NoProof
    /\ mkVerify = NoVerify

NextRoots == MerkleTreeA \/ MerkleTreeB

SpecRoots == InitRoots /\ [][NextRoots]_vars

\* the longest list handed over with an explicit max_batch_size is one longer
\* than MaxBatch
MaxBatch == 2

\* the inputs of the engine specification. The records: two well-formed ones,
\* the second with {"gps": {"lat": 59, "lon": 18}}, and one whose location,
\* {"gps": {"lat": "n"}}, cannot be formatted. The lists: every list of up to
\* MaxBatch + 1 well-formed records, lists that hold the malformed one, and a
\* list of MAX_BATCH_SIZE + 1 records; max_batch_size is left to its default
\* or given as MaxBatch
EngineInputs ==
    LET gps(lat) == PyDict(<<Item(StrKey(FieldName.gps), PyDict(lat))>>)
        entropy == <<0, 0, 0, 0, 0, 0, 0, 1>>
        R1 == NewRecord(NAV_START, P1, 1000, entropy, EmptyDict, 1000)
        R2 == NewRecord(NAV_COMPLETE,
                        gps(<<Item(StrKey(FieldName.lat), PyInt(59)),
                              Item(StrKey(FieldName.lon), PyInt(18))>>),
                        1000, entropy, EmptyDict, 1000)
        RBad == NewRecord(NAV_START, gps(<<Item(StrKey(FieldName.lat), PyStr("n", 1))>>),
                          2000, entropy, EmptyDict, 2000)
    IN [records |-> {R1, R2, RBad},
        lists |-> UNION {[1..k -> {R1, R2}] : k \in 0..(MaxBatch + 1)}
                  \cup {<<RBad>>, <<R1, RBad>>, <<R1, RBad, R2>>}
                  \cup {[i \in 1..(MAX_BATCH_SIZE + 1) |-> IF i % 2 = 1 THEN R1 ELSE R2]},
        maxSizes |-> {<<>>, <<MaxBatch>>},
        caller |-> None]

NextEngine ==
    \/ GenerateProof("e1", EngineInputs)
    \/ GenerateBatchProofCall("e1", EngineInputs)
    \/ GenerateBatchProofStep("e1")
    \/ GenerateBatchProofFinish("e1")
    \/ EngineReturn("e1")

SpecEngine == Init /\ [][NextEngine]_vars

\* the inputs of the agent specification: payloads with and without a
\* location that cannot be formatted, auto-verify off and on, and for
\* verify_batch every list of up to MaxBatch of the records that log_action
\* has returned so far
AgentInputs ==
    LET bad == PyDict(<<Item(StrKey(FieldName.gps),
                            PyDict(<<Item(StrKey(FieldName.lat), PyStr("n", 1))>>))>>)
        held == {r \in {NewRecord(NAV_START, payload, now, entropy, EmptyDict, now) :
                           payload \in {P1, bad}, now \in NowValues, entropy \in TokenBytes} :
                    \E i \in 1..Len(actions) : actions[i] = RowOf(r)}
    IN [ops |-> {"log_action", "verify_work"},
        kinds |-> {NAV_START},
        payloads |-> {P1, bad},
        autos |-> {FALSE, TRUE},
        limits |-> {10},
        lists |-> UNION {[1..k -> held] : k \in 1..MaxBatch},
        maxSizes |-> {<<>>},
        caller |-> "verify_batch"]

NextAgent ==
    \/ AgentLogAction("e1", "e2", AgentInputs)
    \/ ProcessPending("e1", AgentInputs)
    \/ GenerateBatchProofCall("e1", AgentInputs)
    \/ GenerateBatchProofStep("e1")
    \/ GenerateBatchProofFinish("e1")
    \/ \E e \in EngineThreads : AgentProve(e) \/ AgentFinish(e) \/ AgentApplyProofVerified(e)

SpecAgent == Init /\ [][NextAgent]_vars

\* the inputs of the draining specification: log_action and verify_work
\* append actions without auto-verification, process_pending is called again
\* and again
DrainInputs == [AgentInputs EXCEPT !.autos = {FALSE}]

NextDrain ==
    \/ AgentLogAction("e1", "e2", DrainInputs)
    \/ ProcessPending("e1", DrainInputs)
    \/ AgentProve("e1")
    \/ AgentFinish("e1")
    \/ AgentApplyProofVerified("e1")

\* process_pending is called again whenever the agent is free again and
\* again, and a call that has begun runs to its end; appending is never
\* required
SpecDrain ==
    Init /\ [][NextDrain]_vars
         /\ SF_vars(ProcessPending("e1", DrainInputs)) /\ WF_vars(AgentProve("e1"))
         /\ WF_vars(AgentFinish("e1")) /\ WF_vars(AgentApplyProofVerified("e1"))

\* a streak of n days that ended the day before the clock starts, as
\* from_dict restores it
RestoredStreak(n) ==
    [current_streak |-> n, longest_streak |-> n, last_activity_date |-> <<-1>>,
     streak_start_date |-> <<0 - n>>, total_active_days |-> n]

\* the inputs of the ledger specification: a gain, a small gain and a heavy
\* penalty, the quality multipliers 1.0 and 1.5, steps of half an hour and of
\* a day
LedgerInputs ==
    [events |-> {"TASK_COMPLETED", "TAMPER_DETECTED"},
     multipliers |-> {10, 15},
     reads |-> {"score", "get_statistics"},
     scores |-> {INITIAL_REPUTATION},
     ticks |-> {HalfHour, Day}]

\* ledgers with the default score, a score near the maximum and one near the
\* minimum, new or with a restored streak at the edge of each tier
InitLedger ==
    /\ StoreInit /\ idCallA = NoCall /\ idCallB = NoCall /\ MerkleIdle /\ EngineInit
    /\ \E start \in {<<INITIAL_REPUTATION, NoStreak>>,
                      <<MAX_REPUTATION - 250, RestoredStreak(2)>>,
                      <<4000, RestoredStreak(6)>>,
                      <<INITIAL_REPUTATION, RestoredStreak(13)>>,
                      <<MAX_REPUTATION - 250, RestoredStreak(29)>>} :
          rep = [NewLedger(start[1], 0) EXCEPT !.streak = start[2]]
    /\ rep_lock = None
    /\ clock = 0
    /\ rt = [t \in Threads |-> LedgerIdleFrame]
    /\ decayed = 0
    /\ LateInit

\* the calls of one thread, time passing between them
NextLedger ==
    \/ LedgerStep("t1", LedgerInputs)
    \/ rt["t1"].pc = "idle" /\ Tick(LedgerInputs)

SpecLedger == InitLedger /\ [][NextLedger]_vars

\* the inputs of two threads on one ledger: a gain, a read of the score, a
\* reset to the default score, steps of an hour
LedgerConcInputs ==
    [events |-> {"TASK_COMPLETED"},
     multipliers |-> {10},
     reads |-> {"score"},
     scores |-> {INITIAL_REPUTATION},
     ticks |-> {Hour}]

\* the calls of two threads on one ledger in any interleaving, time passing
\* at any point
NextLedgerConc ==
    \/ \E t \in Threads : LedgerStep(t, LedgerConcInputs)
    \/ Tick(LedgerConcInputs)

SpecLedgerConc == Init /\ [][NextLedgerConc]_vars

\* the inputs of the lock specification: appends of one record, the update
\* that records a verified proof, a gain in reputation
LockInputs ==
    [kinds |-> {NAV_START},
     payloads |-> {P1},
     timestamps |-> {<<1000>>},
     tagLists |-> {<<>>},
     metas |-> {<<>>},
     requests |-> {<<VERIFIED, "tx1", "proof1">>},
     failures |-> {FALSE},
     events |-> {"PROOF_VERIFIED"},
     multipliers |-> {10}]

\* thread t is in no call of the store, nor in a handler the store notifies
OutsideStore(t) == th[t].pc = "idle"

\* thread t is where the store notifies its handlers
InHandler(t) == th[t].pc \in {"la_emit", "up_emit"}

\* thread t is in no call of the ledger and not in the locked block of the
\* engine
OutsideLedgerAndEngine(t) == rt[t].pc = "idle" /\ engine_lock # t

\* a step of thread t, which runs the agent's calls one after the other:
\* store writes, the engine's locked block, reputation updates, the last
\* also from a handler the store notifies; t1 is the thread that calls
\* verify_work and appends, t2 the background thread of auto-verify
LockStep(t) ==
    \/ /\ OutsideLedgerAndEngine(t)
       /\ \/ t = "t1" /\ LogActionCall(t, LockInputs)
          \/ LogActionInsert(t, LockInputs)
          \/ LogActionCommit(t, LockInputs)
          \/ LogActionEmit(t)
          \/ UpdateProofStatusCall(t, LockInputs)
          \/ UpdateProofStatusExec(t, LockInputs)
          \/ UpdateProofStatusCommit(t, LockInputs)
          \/ UpdateProofStatusEmit(t)
          \/ Return(t)
    \/ /\ OutsideStore(t) /\ OutsideLedgerAndEngine(t)
       /\ SubmitProofLock(t)
    \/ SubmitProofCount(t)
    \/ /\ OutsideStore(t) \/ InHandler(t)
       /\ engine_lock # t
       /\ RecordEventCall(t, LockInputs)
    \/ ApplyDecayCheck(t)
    \/ RecordEventApply(t)
    \/ LedgerReturn(t)

NextLocks == \E t \in Threads : LockStep(t)

\* every thread that can take a step takes one in the end
SpecLocks == Init /\ [][NextLocks]_vars /\ \A t \in Threads : WF_vars(LockStep(t))

\* the inputs of the pool specification: the records of the engine
\* specification, in tasks that end and in tasks that wait for ever
PoolInputs == [records |-> EngineInputs.records, waits |-> {FALSE, TRUE}]

NextPool ==
    \/ GenerateProofAsync(PoolInputs)
    \/ WorkerStart
    \/ WorkerFinish
    \/ ShutdownCall
    \/ ShutdownReturn

\* a worker that can take a task takes it, a task that can end ends, and a
\* shutdown that can return returns
SpecPool ==
    Init /\ [][NextPool]_vars
         /\ WF_vars(WorkerStart) /\ WF_vars(WorkerFinish) /\ WF_vars(ShutdownReturn)

\* the inputs of the statistics specification: thread t1 appends actions
\* and moves their proof status while thread t2 calls
\* get_statistics; midnight falls before or after the appended timestamps
StatisticsInputs ==
    [kinds |-> {NAV_START},
     payloads |-> {P1},
     timestamps |-> {<<1000>>},
     tagLists |-> {<<"a">>},
     metas |-> {<<>>},
     requests |-> {<<VERIFIED, "tx1", "proof1">>},
     todayStarts |-> {0, 1001},
     failures |-> {FALSE}]

NextStatistics ==
    \/ LogActionCall("t1", StatisticsInputs)
    \/ LogActionInsert("t1", StatisticsInputs)
    \/ LogActionInsertTag("t1", StatisticsInputs)
    \/ LogActionCommit("t1", StatisticsInputs)
    \/ LogActionEmit("t1")
    \/ UpdateProofStatusCall("t1", StatisticsInputs)
    \/ UpdateProofStatusExec("t1", StatisticsInputs)
    \/ UpdateProofStatusCommit("t1", StatisticsInputs)
    \/ UpdateProofStatusEmit("t1")
    \/ GetStatisticsCall("t2")
    \/ GetStatisticsSelect("t2", StatisticsInputs)
    \/ \E t \in Threads : Return(t)

SpecStatistics == Init /\ [][NextStatistics]_vars

\* the file before the first open: absent, or left with stored rows by the
\* program at schema version 1, 2 or 3
MaxStored == 1

InitMigrate ==
    /\ StoreInit /\ idCallA = NoCall /\ idCallB = NoCall /\ MerkleIdle /\ EngineInit
    /\ LedgerIdle /\ PoolInit /\ TailInit
    /\ \E version \in 0..SCHEMA_VERSION, n \in 0..MaxStored : schema = Database(version, n)
    /\ boot = [b \in Instances |-> NotOpened]

\* two instances are constructed on the file, in any interleaving
NextMigrate == \E b \in Instances : InitDatabase(b) \/ MigrateSchema(b)

SpecMigrate == InitMigrate /\ [][NextMigrate]_vars

\* the inputs of the counter specification: the calls of the engine that
\* count, on records the prover accepts or rejects, from two threads
CounterInputs ==
    LET records == {r \in EngineInputs.records : r.action_type = NAV_START}
        proved == {r \in records : RunProver(r, CircuitType.STANDARD, 0).exc = None}
    IN [ops |-> {"generate_proof", "worker", "generate_batch_proof", "submit_proof"},
        records |-> records,
        lists |-> {<<>>} \cup {<<r, s>> : r \in proved, s \in records}]

NextCounters ==
    \E e \in EngineThreads :
        \/ CountedCall(e, CounterInputs)
        \/ CountedProve(e)
        \/ CountedAcquire(e)
        \/ CountedLoad(e)
        \/ CountedStore(e)
        \/ CountedRaise(e)

SpecCounters == Init /\ [][NextCounters]_vars

(***************************************************************************)
(* The status machine of the specification.                                *)
(***************************************************************************)
Terminal == {VERIFIED, FAILED, REJECTED, EXPIRED}

\* PENDING -> GENERATING -> GENERATED -> SUBMITTING -> SUBMITTED -> VERIFIED,
\* and any non-terminal status -> FAILED, REJECTED or EXPIRED
LegalEdge(from, to) ==
    \/ <<from, to>> \in {<<PENDING, GENERATING>>, <<GENERATING, GENERATED>>,
                         <<GENERATED, SUBMITTING>>, <<SUBMITTING, SUBMITTED>>,
                         <<SUBMITTED, VERIFIED>>}
    \/ from \notin Terminal /\ to \in {FAILED, REJECTED, EXPIRED}

\* the stored rows with the given id
Stored(tbl, id) == {tbl[i] : i \in {j \in 1..Len(tbl) : tbl[j].id = id}}

\* thread t is inside update_proof_status, before its transaction is committed
InUpdate(t) == th[t].op = "update_proof_status" /\ th[t].pc \in {"up_exec", "up_commit"}

\* C1: every change of a stored proof status follows a legal edge of the
\* status machine (one step along the chain, or from a non-terminal status to
\* FAILED, REJECTED or EXPIRED).
C1_LegalTransitions ==
    [][\A i \in 1..Len(actions) :
          /\ i <= Len(actions')
          /\ \/ actions'[i].proof_status = actions[i].proof_status
             \/ LegalEdge(actions[i].proof_status, actions'[i].proof_status)]_vars

\* C2: a stored status that is VERIFIED, FAILED, REJECTED or EXPIRED is the
\* same in the next state, whatever step is taken.
C2_TerminalAbsorbing ==
    [][\A i \in 1..Len(actions) :
          actions[i].proof_status \in Terminal
             => /\ i <= Len(actions')
                /\ actions'[i].proof_status = actions[i].proof_status]_vars

\* C3: while update_proof_status(id, PENDING) runs on a record stored as
\* VERIFIED, no step changes the stored record, and the call does not get past
\* its transaction: it ends raised.
C3_ResetRejected ==
    [][\A t \in Threads :
          (/\ InUpdate(t)
           /\ th[t].arg.status = PENDING
           /\ \E r \in Stored(actions, th[t].arg.action_id) : r.proof_status = VERIFIED)
             => /\ Stored(actions', th[t].arg.action_id) = Stored(actions, th[t].arg.action_id)
                /\ th'[t].pc \in {"up_exec", "up_commit", "raised"}]_vars

\* a record stored as VERIFIED with its references, about to be reset
C3_Witness ==
    \E t \in Threads :
        /\ InUpdate(t)
        /\ th[t].arg.status = PENDING
        /\ \E r \in Stored(actions, th[t].arg.action_id) :
              r.proof_status = VERIFIED /\ r.tx_hash = "tx1"

(***************************************************************************)
(* Frame of the writes.                                                    *)
(***************************************************************************)
\* the columns no operation may change once the row is persisted
Immutable(r) ==
    [id |-> r.id, robot_did |-> r.robot_did, action_type |-> r.action_type,
     payload |-> r.payload, timestamp |-> r.timestamp, signature |-> r.signature]

\* the columns update_proof_status may not change
OutsideStatus(r) ==
    [id |-> r.id, robot_did |-> r.robot_did, action_type |-> r.action_type,
     payload |-> r.payload, timestamp |-> r.timestamp, signature |-> r.signature,
     batch_id |-> r.batch_id, metadata |-> r.metadata, created_at |-> r.created_at]

\* C4: a step of update_proof_status(id, ...) leaves every row with another id
\* as it is and changes nothing but proof_status, tx_hash and proof_id of the
\* row with that id; and no step of any operation changes id, robot_did,
\* action_type, payload, timestamp or signature of a persisted row.
C4_UpdateFrame ==
    [][\A i \in 1..Len(actions) :
          /\ i <= Len(actions')
          /\ Immutable(actions'[i]) = Immutable(actions[i])
          /\ \A t \in Threads :
                th[t].op = "update_proof_status"
                   => /\ OutsideStatus(actions'[i]) = OutsideStatus(actions[i])
                      /\ actions[i].id # th[t].arg.action_id => actions'[i] = actions[i]
          /\ action_tags' = action_tags
             \/ \A t \in Threads : th[t].op # "update_proof_status"]_vars

\* an update has been committed on one of two stored records
C4_Witness ==
    \E t \in Threads :
        /\ th[t].op = "update_proof_status"
        /\ th[t].pc = "up_emit"
        /\ Len(actions) = 2
        /\ \E i, j \in 1..2 :
              /\ actions[i].id = th[t].arg.action_id
              /\ actions[i].proof_status = VERIFIED
              /\ actions[i].batch_id = "b1"
              /\ actions[j].proof_status = PENDING

(***************************************************************************)
(* Identity of the rows.                                                   *)
(***************************************************************************)
UniqueIds == \A i, j \in 1..Len(actions) : actions[i].id = actions[j].id => i = j

\* C5: no two persisted rows have the same id; no step of an append
\* (log_action, log_actions_batch) changes a persisted row; and the INSERT of
\* log_action whose record has the id of a persisted row leaves the tables as
\* they are and ends the call raised.
C5_UniqueIds ==
    /\ []UniqueIds
    /\ [][\A t \in Threads :
             /\ th[t].op \in {"log_action", "log_actions_batch"}
                   => \A i \in 1..Len(actions) : i <= Len(actions') /\ actions'[i] = actions[i]
             /\ (th[t].pc = "la_insert" /\ th[t].arg.record.id \in RowIds(actions))
                   => /\ actions' = actions
                      /\ action_tags' = action_tags
                      /\ th'[t].pc \in {"la_insert", "raised"}]_vars

\* an append drew the id of a stored record and was refused
C5_Witness ==
    \E t \in Threads :
        /\ th[t].op = "log_action"
        /\ th[t].pc = "raised"
        /\ th[t].ret.exc = IntegrityError
        /\ th[t].arg.left = th[t].arg.tags
        /\ th[t].arg.record.id \in RowIds(actions)
        /\ Len(actions) = 1

(***************************************************************************)
(* The action id.                                                          *)
(***************************************************************************)
IdInputs(call) == <<call.did, call.action_type, call.timestamp, call.used>>

\* C6: two generate_action_id computations give the same id exactly when
\* their (did, action type, timestamp, entropy used) are the same.
C6_IdInjective ==
    (idCallA.made /\ idCallB.made)
        => ((IdInputs(idCallA) = IdInputs(idCallB)) <=> (idCallA.id = idCallB.id))

\* two computations that differ in the entropy alone
C6_Witness ==
    /\ idCallA.made /\ idCallB.made
    /\ idCallA.did = idCallB.did
    /\ idCallA.action_type = idCallB.action_type
    /\ idCallA.timestamp = idCallB.timestamp
    /\ idCallA.used # idCallB.used
    /\ idCallA.entropy = <<>>
    /\ idCallA.id # idCallB.id

(***************************************************************************)
(* Atomicity of log_action.                                                *)
(***************************************************************************)
\* thread t is inside log_action, before its transaction is committed
InLogAction(t) == th[t].op = "log_action" /\ th[t].pc \in {"la_insert", "la_tags", "la_commit"}

\* C7: no step of log_action before its commit succeeds changes the committed
\* tables; when a step fails, the call ends with the error raised to the
\* caller, its uncommitted rows are discarded and no notification was emitted.
C7_LogActionAtomic ==
    [][\A t \in Threads :
          InLogAction(t) =>
             /\ th'[t].pc # "la_emit" => (actions' = actions /\ action_tags' = action_tags)
             /\ th'[t].pc = "raised" =>
                   /\ th'[t].ret.exc \in {IntegrityError, OperationalError}
                   /\ th'[t].emitted = <<>>
                   /\ wtx' = NoTx
                   /\ lock' = None
             /\ th'[t].pc \in {"la_insert", "la_tags", "la_commit", "la_emit", "raised"}]_vars

\* the call failed on a repeated tag, after the action row and the first tag
\* row were written in its transaction
C7_Witness ==
    \E t \in Threads :
        /\ th[t].op = "log_action"
        /\ th[t].pc = "raised"
        /\ th[t].ret.exc = IntegrityError
        /\ th[t].arg.tags = <<"a", "a">>
        /\ th[t].arg.left = <<"a">>
        /\ th[t].arg.record.id \notin RowIds(actions)
        /\ <<th[t].arg.record.id, "a">> \notin action_tags

(***************************************************************************)
(* The pending query.                                                      *)
(***************************************************************************)
\* C10: get_pending_actions(limit) returns the records of the rows stored as
\* PENDING, in ascending timestamp order, cut to the first `limit` of them.
C10_PendingQuery ==
    \A t \in Threads :
        (th[t].pc = "done" /\ th[t].op = "get_pending_actions") =>
            LET pending == {i \in 1..Len(actions) : actions[i].proof_status = PENDING}
                n == IF th[t].arg.limit < Cardinality(pending)
                     THEN th[t].arg.limit ELSE Cardinality(pending)
            IN /\ th[t].ret.exc = None
               /\ Len(th[t].ret.value) = n
               /\ \A k \in 1..n : \E i \in pending : th[t].ret.value[k].id = actions[i].id
               /\ \A k, l \in 1..n :
                     /\ k < l => th[t].ret.value[k].timestamp <= th[t].ret.value[l].timestamp
                     /\ k # l => th[t].ret.value[k].id # th[t].ret.value[l].id
               /\ \A i \in pending :
                     (\A k \in 1..n : th[t].ret.value[k].id # actions[i].id)
                        => \A k \in 1..n : th[t].ret.value[k].timestamp <= actions[i].timestamp

\* the query ran on a store holding two pending records of different timestamps
C10_Witness ==
    \E t \in Threads :
        /\ th[t].pc = "done" /\ th[t].op = "get_pending_actions"
        /\ Len(th[t].fetched) = 2
        /\ th[t].fetched[1].timestamp < th[t].fetched[2].timestamp

(***************************************************************************)
(* Readers beside a writer.                                                *)
(***************************************************************************)
ReadOps == {"get_action", "get_actions_by_tag", "get_recent_actions"}

AllTagRows(tagRows, id) == \A k \in 1..Len(RWTags) : <<id, RWTags[k]>> \in tagRows

\* C8: with every log_action call supplying the tags of RWTags, what a reader
\* can see holds, for each id, either no action row and no tag row or the
\* action row and all its tag rows; and every action row a read has fetched
\* has all its tag rows committed.
C8_NoHalfWrittenPair ==
    /\ \A id \in RowIds(ReaderView.actions) : AllTagRows(ReaderView.tags, id)
    /\ \A row \in ReaderView.tags : row[1] \in RowIds(ReaderView.actions)
    /\ \A t \in Threads :
          (th[t].pc = "done" /\ th[t].op \in ReadOps)
             => \A k \in 1..Len(th[t].fetched) : AllTagRows(action_tags, th[t].fetched[k].id)

\* a read by tag fetched a stored record while another thread was between
\* the two tag INSERTs of its log_action
C8_Witness ==
    \E r, w \in Threads :
        /\ th[r].pc = "done" /\ th[r].op = "get_actions_by_tag"
        /\ Len(th[r].fetched) = 1
        /\ th[w].op = "log_action" /\ th[w].pc = "la_tags"
        /\ th[w].arg.left = <<"b">>
        /\ wtx.owner = w

(***************************************************************************)
(* The write lock.                                                         *)
(***************************************************************************)
\* thread t is inside the write transaction of a write path: its connection
\* is open and its commit has not returned
InWritePath(t) ==
    th[t].pc \in {"la_insert", "la_tags", "la_commit", "up_exec", "up_commit",
                  "sb_exec", "sb_commit", "tag_exec", "tag_commit",
                  "lb_insert", "lb_commit"}

\* C9: a thread inside the write transaction of any write path holds the
\* store's lock, so no two threads are inside write transactions together.
C9_WritersHoldLock ==
    /\ \A t \in Threads : InWritePath(t) => lock = t
    /\ \A t, u \in Threads : (InWritePath(t) /\ InWritePath(u)) => t = u

\* two threads inside write transactions, one of them in add_tag or remove_tag
C9_Witness ==
    \E t, u \in Threads :
        /\ t # u
        /\ th[t].op = "log_action" /\ th[t].pc = "la_tags" /\ wtx.owner = t
        /\ th[u].op \in {"add_tag", "remove_tag"} /\ th[u].pc = "tag_exec"

(***************************************************************************)
(* Round trip through the store.                                           *)
(***************************************************************************)
RoundTripFields ==
    {"id", "robot_did", "action_type", "payload", "timestamp", "signature", "metadata",
     "created_at", "batch_id"}

StatusFields == {"proof_status", "tx_hash", "proof_id"}

\* thread t holds the record log_action returned to it and thread r has
\* finished get_action on that record's id
ReadBack(t, r) ==
    /\ th[t].op = "log_action" /\ th[t].pc = "done"
    /\ th[r].op = "get_action" /\ th[r].pc = "done"
    /\ th[r].arg.action_id = th[t].ret.value.id

\* C11: get_action(record.id) returns, for a record log_action returned, a
\* record equal to it in id, robot_did, action_type, payload, timestamp,
\* signature, metadata, created_at and batch_id, with proof_status, tx_hash
\* and proof_id as update_proof_status left them in the store.
C11_RoundTrip ==
    \A t, r \in Threads :
        ReadBack(t, r) =>
            /\ th[r].ret.exc = None
            /\ \A f \in RoundTripFields : th[r].ret.value[f] = th[t].ret.value[f]
            /\ \A f \in StatusFields :
                  \A row \in Stored(actions, th[r].arg.action_id) : th[r].ret.value[f] = row[f]

\* a record with an int key in its payload was logged, marked VERIFIED and
\* read back
C11_Witness ==
    \E t, r \in Threads :
        /\ ReadBack(t, r)
        /\ th[t].ret.value.payload = PIntKey
        /\ Len(th[r].fetched) = 1
        /\ th[r].fetched[1].proof_status = VERIFIED

(***************************************************************************)
(* The log is append-only.                                                 *)
(***************************************************************************)
\* the ids of the records a finished append returned to thread t
ReturnedIds(t) ==
    IF th[t].pc # "done" THEN {}
    ELSE IF th[t].op = "log_action" THEN {th[t].ret.value.id}
    ELSE IF th[t].op = "log_actions_batch"
         THEN {th[t].ret.value[i].id : i \in 1..Len(th[t].ret.value)}
    ELSE {}

\* C12: no step of any store operation removes an id from the actions table,
\* and the ids a successful append returned are stored.
C12_AppendOnly ==
    /\ [][RowIds(actions) \subseteq RowIds(actions')]_vars
    /\ [](\A t \in Threads : ReturnedIds(t) \subseteq RowIds(actions))

\* remove_tag has committed the removal of the only tag of a stored action
C12_Witness ==
    \E t \in Threads :
        /\ th[t].op = "remove_tag" /\ th[t].pc = "done"
        /\ th[t].arg.action_id \in RowIds(actions)
        /\ action_tags = {}
        /\ \E i \in 1..Len(actions) : actions[i].proof_status = VERIFIED

(***************************************************************************)
(* The payload bound.                                                      *)
(***************************************************************************)
\* C13: no log_action call whose payload serializes to more than
\* MAX_PAYLOAD_SIZE characters gets past its INSERT or returns a record, and
\* the payload of every persisted row is within MAX_PAYLOAD_SIZE.
C13_PayloadBounded ==
    /\ \A t \in Threads :
          (th[t].op = "log_action" /\ th[t].pc \in {"la_tags", "la_commit", "la_emit", "done"})
             => JsonLen(th[t].arg.record.payload) <= MAX_PAYLOAD_SIZE
    /\ \A i \in 1..Len(actions) : TextLen(actions[i].payload) <= MAX_PAYLOAD_SIZE

\* log_action was called with a payload larger than MAX_PAYLOAD_SIZE and has
\* returned
C13_Witness ==
    \E t \in Threads :
        /\ th[t].op = "log_action" /\ th[t].pc = "done"
        /\ JsonLen(th[t].arg.record.payload) > MAX_PAYLOAD_SIZE

(***************************************************************************)
(* Merkle inclusion proofs.                                                *)
(***************************************************************************)
\* verify_proof has run on the proof get_proof returned for a leaf of mtA,
\* with the side of step k changed (k = 0: the proof as returned)
VerifiedProof(k) ==
    /\ mkVerify.made /\ mkProof.made /\ mtA.built
    /\ mkProof.index < Len(mtA.leaves)
    /\ mkVerify.flipped = k

ProvenLeaf == mtA.leaves[mkProof.index + 1]

\* C14: for every nonempty leaf sequence and every index i of a leaf,
\* verify_proof(leaves[i], get_proof(i), root) is true.
C14_MerkleComplete ==
    (VerifiedProof(0) /\ mkVerify.leaf = ProvenLeaf) => mkVerify.result

\* the proof of the last of five leaves, whose node is the unpaired last node
\* of the leaf layer and of the layer above it
C14_Witness ==
    /\ VerifiedProof(0) /\ mkVerify.leaf = ProvenLeaf
    /\ Len(mtA.leaves) = 5 /\ mkProof.index = 4
    /\ Len(mtA.layers[2]) = 3 /\ Len(mkVerify.proof) = 3
    /\ mkVerify.result

(***************************************************************************)
(* The Merkle root as a commitment.                                        *)
(***************************************************************************)
BothBuilt == mtA.built /\ mtB.built /\ mtA.leaves # <<>> /\ mtB.leaves # <<>>

\* the positions at which two leaf sequences of one length differ
DifferAt == {i \in 1..Len(mtA.leaves) : mtA.leaves[i] # mtB.leaves[i]}

\* C15: two nonempty leaf sequences of one length that differ in exactly one
\* leaf have different roots.
C15_LeafChangesRoot ==
    (BothBuilt /\ Len(mtA.leaves) = Len(mtB.leaves) /\ Cardinality(DifferAt) = 1)
        => Root(mtA.layers) # Root(mtB.layers)

\* two built trees of three leaves that differ in the third leaf, the
\* unpaired last node of the leaf layer
C15_Witness ==
    /\ BothBuilt
    /\ Len(mtA.leaves) = 3 /\ Len(mtB.leaves) = 3
    /\ DifferAt = {3}
    /\ Root(mtA.layers) # Root(mtB.layers)

\* C16: two leaf sequences that differ in length, in order or in a leaf have
\* different roots.
C16_RootCommits ==
    (BothBuilt /\ mtA.leaves # mtB.leaves) => Root(mtA.layers) # Root(mtB.layers)

\* built: a tree of three leaves and the tree of the same leaves with the
\* last one repeated; or a tree of two leaves and the tree of the single leaf
\* made of their two digests
C16_Witness ==
    /\ BothBuilt
    /\ \/ /\ Len(mtA.leaves) = 3
          /\ mtB.leaves = Append(mtA.leaves, mtA.leaves[3])
       \/ /\ mtA.leaves = <<LeafA, LeafB>>
          /\ mtB.leaves = <<LeafAB>>

(***************************************************************************)
(* Merkle verification and the side of a step.                             *)
(***************************************************************************)
\* the hash verify_proof has computed when it reaches step k of the proof
HashBefore(k) == PathHash(Sha256Digest(mkVerify.leaf), SubSeq(mkVerify.proof, 1, k - 1))

\* verify_proof has run on leaves[i] and get_proof(i) with the side of one
\* step changed
SideChanged ==
    \E k \in 1..Len(mkVerify.proof) : VerifiedProof(k) /\ mkVerify.leaf = ProvenLeaf

\* verify_proof has run on get_proof(i) as returned and a leaf other than
\* leaves[i]
LeafChanged == VerifiedProof(0) /\ mkVerify.leaf # ProvenLeaf

\* C17 as stated: with the side of any one step of a valid proof changed,
\* verify_proof returns false; with a leaf other than leaves[i], verify_proof
\* returns false.
C17_SideAndLeafBind == (SideChanged \/ LeafChanged) => ~mkVerify.result

\* C17: with the side changed of one step of a valid proof whose sibling is
\* not the hash computed so far, verify_proof returns false (changing the
\* side of a step that pairs a hash with itself changes nothing); with a leaf
\* other than leaves[i], verify_proof returns false.
C17_DistinctSiblingBinds ==
    /\ \A k \in 1..Len(mkVerify.proof) :
          (VerifiedProof(k) /\ mkVerify.leaf = ProvenLeaf
             /\ mkVerify.proof[k].sibling # HashBefore(k)) => ~mkVerify.result
    /\ LeafChanged => ~mkVerify.result

\* the second step of a three-step proof had its side changed, its sibling
\* is not the hash computed so far, and verification failed
C17_Witness ==
    /\ VerifiedProof(2) /\ mkVerify.leaf = ProvenLeaf
    /\ Len(mkVerify.proof) = 3
    /\ mkVerify.proof[2].sibling # HashBefore(2)
    /\ ~mkVerify.result

\* the engine call of thread e is a generate_batch_proof that has ended
BatchEnded(e) == pv[e].op = "generate_batch_proof" /\ pv[e].pc \in {"done", "raised"}

\* the proof of every action of the list can be generated
Provable(actions_) ==
    \A i \in 1..Len(actions_) : \A now \in NowValues : RunProver(actions_[i], CircuitType.BATCH, now).exc = None

ProofFor(action, now) == CreateProofStructure(PrepareInputs(action).value, CircuitType.BATCH, now)

\* C19: the BatchProof a generate_batch_proof call returns counts the
\* caller's actions, holds as many proofs, its i-th proof is the one generated
\* for the i-th action, and its merkle_root is the root of the tree whose i-th
\* leaf is the serialization of the i-th proof
C19_OrderPreserved ==
    \A e \in EngineThreads :
        (BatchEnded(e) /\ pv[e].pc = "done") =>
            LET batch == pv[e].ret.value
                n == Len(pv[e].actions)
            IN /\ batch.action_count = n
               /\ Len(batch.individual_proofs) = n
               /\ \A i \in 1..n :
                     batch.individual_proofs[i]
                         = ProofFor(pv[e].actions[i], batch.individual_proofs[i].generated_at)
               /\ batch.merkle_root
                     = Hex(Root(BuildTree([i \in 1..n |-> ToBytes(batch.individual_proofs[i])])))

\* a batch of three actions, the first and the last of them different, was
\* returned
C19_Witness ==
    /\ BatchEnded("e1") /\ pv["e1"].pc = "done"
    /\ Len(pv["e1"].actions) = 3
    /\ pv["e1"].actions[1] # pv["e1"].actions[3]
    /\ pv["e1"].ret.value.individual_proofs[1] # pv["e1"].ret.value.individual_proofs[3]

\* the frame of an agent path in which generating the proof of the action it
\* is at has raised
GenerationFailed(e) ==
    /\ pv[e].pc = "raised" /\ pv[e].left # <<>>
    /\ pv[e].caller \in {"verify_work", "verify_batch", "process_pending", "_verify_action_async"}

\* the stored status of an action
StoredStatus(tbl, id) == {tbl[i].proof_status : i \in SqlWhere(tbl, "id", id)}

\* C20: when the generation of a proof for a stored action has failed on one
\* of the agent's paths, the step in which that path deals with the failure
\* leaves the action's stored status FAILED
C20_FailureRecorded ==
    [][\A e \in EngineThreads :
          (GenerationFailed(e) /\ pv'[e] # pv[e]) =>
              StoredStatus(actions', Head(pv[e].left).id) \subseteq {FAILED}]_vars

\* verify_work has stored an action and the generation of its proof has
\* raised; no background thread is at work on it
C20_Witness ==
    /\ GenerationFailed("e1") /\ pv["e1"].caller = "verify_work"
    /\ pv["e2"].pc = "idle"
    /\ StoredStatus(actions, Head(pv["e1"].left).id) = {PENDING}

(***************************************************************************)
(* The reputation ledger.                                                  *)
(***************************************************************************)
\* thread t has come to the end of a record_event call
Recorded(t) == rt[t].op = "record_event" /\ rt[t].pc = "done"

StreakTier(days) ==
    IF days >= 30 THEN 15
    ELSE IF days >= 14 THEN 13
    ELSE IF days >= 7 THEN 12
    ELSE IF days >= 3 THEN 11
    ELSE 10

\* thread t takes the step of record_event that applies the delta
Applies(t) == rt[t].pc = "re_apply" /\ rt'[t].pc = "done"

\* C22: the delta record_event computes before clamping is base x multiplier
\* x streak multiplier for an event of positive base delta and base x
\* multiplier for one of negative base delta, the streak multiplier being
\* 1.0, 1.1, 1.2, 1.3 or 1.5 for a current streak of <3, <7, <14, <30 or
\* >=30 days at the call; the score becomes the old score plus that delta,
\* clamped.
C22_DeltaFormula ==
    [][\A t \in Threads :
          Applies(t) =>
              LET base == ReputationEvent[rt[t].event_type]
                  tier == StreakTier(rep.streak.current_streak)
                  delta == IF base > 0 THEN (base * rt[t].multiplier * tier) \div 100
                           ELSE (base * rt[t].multiplier) \div 10
              IN /\ rt'[t].streak_multiplier = tier
                 /\ rt'[t].final_delta = delta
                 /\ rep'.score = Max2(MIN_REPUTATION, Min2(MAX_REPUTATION, rep.score + delta))]_vars

\* TASK_COMPLETED with multiplier 1.5 was recorded at streak multiplier 1.1:
\* the delta is 2.0 x 1.5 x 1.1 = 3.3 and the score rose by it
C22_Witness ==
    /\ Recorded("t1")
    /\ rt["t1"].event_type = "TASK_COMPLETED" /\ rt["t1"].multiplier = 15
    /\ rt["t1"].streak_multiplier = 11
    /\ rt["t1"].final_delta = 330
    /\ rep.score = rt["t1"].old_score + 330

\* the sum of the deltas the records of a history hold
RECURSIVE SumDeltas(_)
SumDeltas(history) ==
    IF history = <<>> THEN 0 ELSE history[1].score_delta + SumDeltas(Tail(history))

\* thread t takes a step of a ledger call
Moves(t) == <<rt'[t].pc, rt'[t].op, rt'[t].pass>> # <<rt[t].pc, rt[t].op, rt[t].pass>>

C24_StreakBookkeeping ==
    [][\A t \in Threads :
          (Applies(t) /\ rep.streak.last_activity_date # <<>>) =>
              LET before == rep.streak
                  after == rep'.streak
                  days == Today(clock) - before.last_activity_date[1]
              IN /\ days = 0 =>
                       /\ after.current_streak = before.current_streak
                       /\ after.longest_streak = before.longest_streak
                       /\ after.total_active_days = before.total_active_days
                 /\ days = 1 =>
                       /\ after.current_streak = before.current_streak + 1
                       /\ after.total_active_days = before.total_active_days + 1
                 /\ days > 1 => after.current_streak = 1]_vars

\* an event on the day after a skipped day: a streak of six days is at one,
\* the longest streak is still six and the active days are seven
C24_Witness ==
    /\ Recorded("t1")
    /\ rep.streak.current_streak = 1
    /\ rep.streak.longest_streak = 6
    /\ rep.streak.total_active_days = 7
    /\ rep.streak.last_activity_date = <<Today(clock)>>

\* C25: a call that finds less than a full hour between the checkpoint and
\* now leaves the score and the checkpoint as they were; one that finds a
\* full hour or more multiplies the score by (1 - rate) ^ (hours since the
\* checkpoint), not below MIN_REPUTATION, and then moves the checkpoint to
\* the now it read, so the checkpoint advances by exactly the time whose
\* decay was applied.
C25_LazyDecay ==
    [][\A t \in Threads :
          /\ (rt[t].pc = "decay_check" /\ Moves(t)) =>
                /\ rep' = rep
                /\ rt'[t].pc = "decay_score" <=> clock - rep.last_decay_check >= Hour
          /\ (rt[t].pc = "decay_score" /\ Moves(t)) =>
                /\ rep'.score = Max2(MIN_REPUTATION,
                                     Decay(rep.score, rt[t].now - rep.last_decay_check))
                /\ rep'.last_decay_check = rep.last_decay_check
                /\ decayed' - decayed = rt[t].now - rep.last_decay_check
          /\ (rt[t].pc = "decay_mark" /\ Moves(t)) =>
                /\ rep'.score = rep.score
                /\ rep'.last_decay_check = rt[t].now
                /\ rep'.last_decay_check - rep.last_decay_check = rt[t].elapsed]_vars

\* a read a day and half an hour after the checkpoint has applied the decay
\* of twenty-four and a half hours and moved the checkpoint to its now
C25_Witness ==
    /\ rt["t1"].pc = "done" /\ rt["t1"].op = "score"
    /\ rt["t1"].elapsed = Day + HalfHour
    /\ rep.last_decay_check = Day + HalfHour
    /\ decayed = Day + HalfHour
    /\ rep.history = <<>> /\ rep.score < INITIAL_REPUTATION /\ rep.score > 4000

\* C26: the decay of one elapsed interval is applied at most once, in every
\* interleaving of record_event with score, reset or another record_event:
\* the time whose decay the score has undergone since the ledger was made or
\* reset is never more than the time that has passed.
C26_DecayAtMostOnce == decayed <= clock

\* a record_event, holding the lock, and a read of the score on another
\* thread have both found the same hour elapsed and both stand before the
\* write of the decayed score
C26_Witness ==
    \E t, u \in Threads :
        /\ rt[t].op = "record_event" /\ rt[t].pc = "decay_score" /\ rep_lock = t
        /\ rt[u].op = "score" /\ rt[u].pc = "decay_score"
        /\ rt[t].elapsed = Hour /\ rt[u].elapsed = Hour

(***************************************************************************)
(* The three locks.                                                        *)
(***************************************************************************)
\* the locks thread t holds
Held(t) ==
    (IF lock = t THEN {"store"} ELSE {}) \cup (IF engine_lock = t THEN {"engine"} ELSE {})
        \cup (IF rep_lock = t THEN {"ledger"} ELSE {})

\* C27: no thread holds the ledger's lock together with the store's lock or
\* the engine's lock, and a thread in a handler the store notifies holds
\* neither the store's nor the engine's lock, so no thread acquires one of
\* the locks while it holds another; and every lock is free again and again,
\* so that a thread waiting for it can be granted it.
C27_NoCrossDeadlock ==
    /\ [](\A t \in Threads :
            /\ Cardinality(Held(t)) <= 1
            /\ InHandler(t) => Held(t) \subseteq {"ledger"})
    /\ []<>(lock = None)
    /\ []<>(engine_lock = None)
    /\ []<>(rep_lock = None)

\* one thread holds the store's lock inside update_proof_status, the other is
\* in a handler of the store's notification and holds the ledger's lock
C27_Witness ==
    \E t, u \in Threads :
        /\ lock = t /\ th[t].pc = "up_exec"
        /\ InHandler(u) /\ rep_lock = u /\ rt[u].pc = "re_apply"
        /\ stats.proofs_submitted > 0

(***************************************************************************)
(* Shutdown.                                                               *)
(***************************************************************************)
\* C28: a shutdown that has been called returns, also when a task that was
\* submitted never comes to its end.
C28_ShutdownTerminates == (pool.shutdown = "waiting") ~> (pool.shutdown = "returned")

\* shutdown was called and waits: one task has ended, the other is running
\* and waits for a payload that never answers
C28_Witness ==
    /\ pool.shutdown = "waiting"
    /\ \E i, j \in 1..Len(pool.tasks) :
          /\ pool.tasks[i].state = "done" /\ pool.tasks[i].ret = <<None>>
          /\ pool.tasks[j].state = "running" /\ pool.tasks[j].waits

RECURSIVE SumCounts(_)
SumCounts(dict) ==
    IF DOMAIN dict = {} THEN 0
    ELSE LET k == CHOOSE k \in DOMAIN dict : TRUE
         IN dict[k] + SumCounts([x \in DOMAIN dict \ {k} |-> dict[x]])

\* the dicts get_statistics has returned
StatisticsReturned ==
    {th[t].ret.value : t \in {u \in Threads : th[u].op = "get_statistics" /\ th[u].pc = "done"}}

\* C29: every result of the store's get_statistics is internally consistent,
\* also while appends and status updates run: total_actions is the sum of the
\* counts by status and the sum of the counts by kind, the first timestamp is
\* not after the last, and actions_today is at most total_actions
C29_StatisticsConsistent ==
    \A s \in StatisticsReturned :
        /\ s.total_actions = SumCounts(s.actions_by_status)
        /\ s.total_actions = SumCounts(s.actions_by_type)
        /\ (s.first_action_timestamp # <<>> /\ s.last_action_timestamp # <<>>
               => s.first_action_timestamp[1] <= s.last_action_timestamp[1])
        /\ s.actions_today <= s.total_actions

\* an append committed between the first and the second SELECT of a
\* get_statistics call that has returned: more rows by status than in total
C29_Witness ==
    \E s \in StatisticsReturned : s.total_actions < SumCounts(s.actions_by_status)

\* the instances that executed a statement of the migration
Migrators == {b \in Instances : boot[b].ran # <<>>}

\* every row and column the file held before the instances opened it is
\* still there, in place and with its value
Preserved ==
    /\ Len(schema.rows) = Len(schema.before.rows)
    /\ \A j \in DOMAIN schema.before.columns : schema.columns[j] = schema.before.columns[j]
    /\ \A i \in DOMAIN schema.before.rows :
          \A c \in DOMAIN schema.before.rows[i] : schema.rows[i][c] = schema.before.rows[i][c]

\* C30: migrations run exactly once: when two instances have been constructed
\* on a database below version 3, exactly one of them executed migration
\* steps; in every case the database ends at version 3 with every stored row
\* and column preserved; on a database already at version 3 nobody migrates
C30_MigrateOnce ==
    (\A b \in Instances : boot[b].pc = "ready") =>
        /\ schema.before.version < SCHEMA_VERSION => Cardinality(Migrators) = 1
        /\ CurrentVersion(schema) = SCHEMA_VERSION
        /\ Preserved
        /\ schema.before.version = SCHEMA_VERSION => Migrators = {}

\* both instances read a version below 3 before either finished, and both
\* executed the migration
C30_Witness ==
    /\ \A b \in Instances : boot[b].pc = "ready"
    /\ Migrators = Instances

\* C31: the statistics counters of the engine lose no update: in every
\* interleaving proofs_generated, batch_proofs_generated and proofs_submitted
\* are the numbers of completed generate_proof executions (direct, by a pool
\* worker or inside a batch), generate_batch_proof calls and submit_proof calls
C31_NoLostUpdate ==
    /\ stats.proofs_generated = CompletedBy("generated")
    /\ stats.batch_proofs_generated = CompletedBy("batches")
    /\ stats.proofs_submitted = CompletedBy("submitted")

\* both threads have completed executions and one waits for the lock
\* while the other is between reading and writing a counter
C31_Witness ==
    /\ counting["e1"].pc = "store" /\ counting["e2"].pc = "lock"
    /\ counting["e1"].counter = counting["e2"].counter
    /\ counting["e1"].generated > 0 /\ counting["e2"].generated > 0

\* the BatchProofs that generate_batch_proof has returned
BatchProofs ==
    {pv[e].ret.value : e \in {x \in EngineThreads : pv[x].op = "generate_batch_proof"
                                                     /\ pv[x].pc = "done"}}

\* C32: in every BatchProof returned by generate_batch_proof the action-hash
\* entry of the aggregated proof's public inputs is merkle_root, and
\* merkle_root is the root of the Merkle tree over the serialized individual
\* proofs
C32_CommitsToRoot ==
    \A b \in BatchProofs :
        /\ b.aggregated_proof.public_inputs[2] = b.merkle_root
        /\ b.merkle_root =
              Hex(Root(BuildTree([i \in 1..Len(b.individual_proofs) |->
                                    ToBytes(b.individual_proofs[i])])))

\* a batch of two actions has been proved
C32_Witness ==
    \E b \in BatchProofs : Len(b.individual_proofs) = 2

\* the generate_batch_proof calls that have failed
FailedBatches ==
    {pv[e] : e \in {x \in EngineThreads : pv[x].op = "generate_batch_proof"
                                           /\ pv[x].pc = "raised"}}

\* C33: a batch proof is created atomically: when generate_batch_proof has
\* failed, the statistics (proofs_generated, total_proving_time,
\* batch_proofs_generated) and the proof cache are as the call found them
C33_BatchAtomic ==
    \A f \in FailedBatches : stats = f.entry[1].stats /\ proof_cache = f.entry[1].cache

\* the prover failed on a later action of a batch, after a proof of this call
C33_Witness ==
    \E f \in FailedBatches : f.individual_proofs # <<>> /\ f.left # <<>>

\* the reference algorithm: the parents of a layer, pair by pair from the
\* front, a last node without partner paired with itself
RECURSIVE ReferenceParents(_)
ReferenceParents(layer) ==
    IF layer = <<>> THEN <<>>
    ELSE IF Len(layer) = 1 THEN <<Sha256Digest(layer[1] \o layer[1])>>
    ELSE <<Sha256Digest(layer[1] \o layer[2])>> \o ReferenceParents(Tail(Tail(layer)))

RECURSIVE ReferenceTop(_)
ReferenceTop(layer) == IF Len(layer) = 1 THEN layer[1] ELSE ReferenceTop(ReferenceParents(layer))

\* the hash of the empty byte string for no leaves, else the single node of
\* the top layer above the hashed leaves
ReferenceRoot(leaves) ==
    IF leaves = <<>> THEN Sha256Digest(<<>>)
    ELSE ReferenceTop([i \in 1..Len(leaves) |-> Sha256Digest(leaves[i])])

\* C34: MerkleTree computes the root of the reference algorithm for every
\* leaf sequence, the empty one included, and get_proof with an index outside
\* 0..n-1 is rejected
C34_ReferenceRoot ==
    /\ mtA.built => Root(mtA.layers) = ReferenceRoot(mtA.leaves)
    /\ (mkProof.made /\ (mkProof.index < 0 \/ mkProof.index >= Len(mtA.leaves)))
          => mkProof.ret.exc # None

\* get_proof(-1) on a tree of three leaves returned a proof
C34_Witness ==
    /\ mtA.built /\ Len(mtA.leaves) = 3 /\ Root(mtA.layers) = ReferenceRoot(mtA.leaves)
    /\ mkProof.made /\ mkProof.index = -1 /\ mkProof.ret.exc = None

\* the iterations that have ended, by exhaustion or by an exception
EndedIterations ==
    {th[t] : t \in {u \in Threads : th[u].op = "iterate_all_actions"
                                     /\ th[u].pc \in {"done", "raised"}}}

\* C35: iterate_all_actions(batch_size), batch_size >= 1, yields every record
\* that was persisted when the iteration started exactly once, in ascending
\* timestamp order, also when appends are committed between its pages
C35_FullScan ==
    \A f \in EndedIterations :
        /\ f.ret.exc = None
        /\ \A id \in f.arg.at_start :
              Cardinality({i \in DOMAIN f.emitted : f.emitted[i].id = id}) = 1
        /\ \A i, j \in DOMAIN f.emitted :
              i < j => f.emitted[i].timestamp <= f.emitted[j].timestamp

\* an iteration over a store that held a record when it started has fetched
\* its first page and ended
C35_Witness ==
    \E f \in EndedIterations : f.arg.at_start # {} /\ f.fetched # <<>>

\* C36: references only move forward: once tx_hash or proof_id of a record
\* is not null, no later update_proof_status makes it null again
C36_ReferencesKept ==
    [][\A i \in DOMAIN actions :
          /\ actions[i].tx_hash # None => actions'[i].tx_hash # None
          /\ actions[i].proof_id # None => actions'[i].proof_id # None]_vars

\* update_proof_status without references has run its UPDATE on a row whose
\* committed tx_hash and proof_id are set, and is about to commit
C36_Witness ==
    \E t \in Threads, i \in DOMAIN actions :
        /\ th[t].op = "update_proof_status" /\ th[t].pc = "up_commit"
        /\ th[t].arg.tx_hash = None /\ th[t].arg.action_id = actions[i].id
        /\ actions[i].tx_hash # None /\ actions[i].proof_id # None
        /\ wtx.actions[i].tx_hash = None /\ wtx.actions[i].proof_id = None

(***************************************************************************)
(* Reputation for verified proofs.                                         *)
(***************************************************************************)
\* the PROOF_VERIFIED records of the ledger history
ProofVerifiedEvents == {k \in 1..Len(rep.history) : rep.history[k].event_type = "PROOF_VERIFIED"}

\* the stored actions whose status is VERIFIED
VerifiedRows == {i \in 1..Len(actions) : actions[i].proof_status = VERIFIED}

\* C37: the ledger history never holds more PROOF_VERIFIED records than there
\* are stored actions with status VERIFIED, whatever the interleaving of
\* process_pending, the auto-verification threads and verify_work
C37_OneEventPerVerified == Cardinality(ProofVerifiedEvents) <= Cardinality(VerifiedRows)

\* verify_work and the auto-verification thread its log_action started have
\* both recorded their event for the one stored action
C37_Witness ==
    /\ Len(actions) = 1
    /\ Cardinality(VerifiedRows) = 1
    /\ Cardinality(ProofVerifiedEvents) = 2
    /\ \A e \in EngineThreads : pv[e].pc = "idle"

(***************************************************************************)
(* Draining the pending actions.                                           *)
(***************************************************************************)
\* the stored actions whose status is PENDING
PendingRows == {i \in 1..Len(actions) : actions[i].proof_status = PENDING}

\* C38: when process_pending is called again and again and the appending of
\* actions has come to an end, from some state on no stored action is
\* PENDING, and process_pending returns the empty list again and again
C38_Drained ==
    /\ <>[](PendingRows = {})
    /\ []<>(pv["e1"].op = "process_pending" /\ pv["e1"].pc = "done")

\* an action is stored as PENDING and a process_pending call has ended in
\* the exception of get_pending_actions, the action still PENDING
C38_Witness ==
    /\ PendingRows # {}
    /\ pv["e1"].op = "process_pending" /\ pv["e1"].pc = "raised"
    /\ pv["e1"].ret = Raised(AttributeError)

(***************************************************************************)
(* Tamper evidence.                                                        *)
(***************************************************************************)
\* the stored signature of row verifies against the canonical encoding of
\* the row's stored id, type, payload and timestamp
StoredSignatureVerifies(row) ==
    VerifySignature(Canonical(SignData(row.id, row.action_type, JsonLoads(row.payload),
                                       row.timestamp)),
                    row.signature)

\* C39: after any sequence of log_action, update_proof_status, set_batch_id,
\* add_tag and remove_tag calls, the stored signature of every persisted
\* record verifies against the canonical encoding of its stored fields
C39_TamperEvident == \A i \in 1..Len(actions) : StoredSignatureVerifies(actions[i])

\* a record whose payload has the int keys 2 and 10 is persisted and its
\* log_action call has returned
C39_Witness ==
    /\ wtx.owner = None
    /\ th["t1"].pc = "idle"
    /\ \E i \in 1..Len(actions) :
          /\ actions[i].payload = JsonDumps(PTwoIntKeys)
          /\ ~StoredSignatureVerifies(actions[i])

(***************************************************************************)
(* Atomicity of log_actions_batch.                                         *)
(***************************************************************************)
\* thread t is inside log_actions_batch, before the call's commit
InBatch(t) == th[t].op = "log_actions_batch" /\ th[t].pc \in {"lb_insert", "lb_commit"}

\* records holds one PENDING record per item, in the order of the items
RecordsOfItems(records, items) ==
    /\ Len(records) = Len(items)
    /\ \A k \in 1..Len(items) :
          /\ records[k].proof_status = PENDING
          /\ records[k].action_type = items[k].action_type
          /\ records[k].payload = items[k].payload
          /\ items[k].timestamp # <<>> => records[k].timestamp = items[k].timestamp[1]

\* C40: while a log_actions_batch call is under way the store stays as it
\* was before the call, whatever fails; the step that commits the call
\* persists exactly one PENDING record per item of the list, appended in the
\* order of the list, and these are the records the call returns
C40_AllOrNothing ==
    [][\A t \in Threads :
          InBatch(t) =>
              IF th'[t].pc = "lb_return"
              THEN /\ RecordsOfItems(th[t].arg.records, th[t].arg.items)
                   /\ actions' = actions \o [k \in 1..Len(th[t].arg.records) |->
                                                RowOf(th[t].arg.records[k])]
                   /\ action_tags' = action_tags
              ELSE actions' = actions /\ action_tags' = action_tags]_vars

\* a call has failed at its second item, of an unknown kind, after the INSERT
\* of its first item, and the record of the first item is not in the store
C40_Witness ==
    \E t \in Threads :
       /\ th[t].op = "log_actions_batch" /\ th[t].pc = "raised"
       /\ th[t].ret = Raised(ValueError)
       /\ Len(th[t].arg.records) = 1
       /\ th[t].arg.records[1].id \notin RowIds(actions)
       /\ wtx = NoTx

====
